---------------------------- MODULE Spec2Model ----------------------------
(* Inventory ledger, costing engine, cost cascade and order confirmation   *)
(* of the Swad of Tamil backend (src/backend/{ingredients,menu,orders}).   *)
(*                                                                         *)
(* Quantities are integers counting millionths (micro) of a unit, so that  *)
(* a recipe quantity with three decimals and its division by 1000 in       *)
(* to_base_unit are exact.  Money is counted in paise (hundredths).        *)
EXTENDS Integers, Sequences, FiniteSets, TLC

VARIABLES
    ledger,          \* IngredientStockLedger rows, in insertion order
    ingredients,     \* ids of the Ingredient rows that exist
    orders,          \* ids of the Order rows that exist
    status,          \* Order.status column, per order id
    snack_batches,   \* SnackBatch rows (units_remaining, received), oldest first
    cost_per_unit,   \* Ingredient.cost_per_unit (paise per base unit)
    fallback_cost_per_unit, \* Ingredient.fallback_cost_per_unit or Null
    cost_price_cached,      \* PreparedItem.cost_price_cached
    cost_cached,     \* ComboItem.cost_cached, per <<combo, line>>
    strict,          \* settings.SWAD_STRICT_COST_INTEGRITY
    allow_fallback,  \* settings.SWAD_ALLOW_FALLBACK_PRICING
    quote,           \* the last read-only call: its arguments and what it returned
    last,            \* the operation that ran last and how it ended
    recipes,         \* PreparedItemRecipe rows, per prepared item
    combo_quantity,  \* ComboItem.quantity, per <<combo, line>>
    is_active,       \* is_active column of combos, prepared items, ingredients
    events,          \* OrderEvent rows (their action), per order id
    metadata,        \* Order.metadata["idempotency_key"] or none, per order id
    procs            \* the handlers in flight: their position and local variables

vars == <<ledger, ingredients, orders, status, snack_batches,
          cost_per_unit, fallback_cost_per_unit, cost_price_cached,
          cost_cached, strict, allow_fallback, quote, last,
          recipes, combo_quantity, is_active, events, metadata, procs>>

-----------------------------------------------------------------------------
(* Bounds of the model                                                     *)

\* the ledger holds at most MaxLedger rows, at most MaxManual of them rows
\* that no order confirmation wrote
MaxLedger == 4
MaxManual == 2

-----------------------------------------------------------------------------
(* Scales and program constants                                            *)

Micro == 1000000
Milli == 1000
Null == -1
NoOrder == 0
NoItem == "none"
NoCombo == "none"
NoKey == "none"

-----------------------------------------------------------------------------
(* Catalog: read-only to the core                                          *)

Rice == "Rice"
Coconut == "Coconut"
Salt == "Salt"
AllIngredients == {Rice, Coconut, Salt}

\* Ingredient.unit
IngUnit(i) == CASE i = Rice -> "kg" [] i = Coconut -> "pcs" [] OTHER -> "ltr"

PreparedItems == {"idli", "sambar", "chutney", "podi", "plain", "pinch", "rasam"}

\* PreparedItem.production_mode
production_mode(p) ==
    IF p \in {"sambar", "rasam", "pinch"} THEN "batch" ELSE "per_serving"
\* PreparedItem.batch_output_quantity / serving_size (whole units); rasam is a
\* batch item created without its batch output
batch_output_quantity(p) == IF p \in {"sambar", "pinch"} THEN 500 ELSE Null
serving_size(p) == IF p \in {"sambar", "rasam", "pinch"} THEN 100 ELSE 1

\* the PreparedItemRecipe rows the catalog starts with, in iteration order
InitialRecipes(p) ==
    CASE p = "idli" ->
           << [ingredient |-> Rice, quantity |-> 100 * Micro, quantity_unit |-> "gm"] >>
      [] p = "sambar" ->
           << [ingredient |-> Rice, quantity |-> 50 * Micro, quantity_unit |-> "gm"] >>
      [] p = "chutney" ->
           << [ingredient |-> Rice, quantity |-> 50 * Micro, quantity_unit |-> "gm"],
              [ingredient |-> Coconut, quantity |-> 1 * Micro, quantity_unit |-> "pcs"] >>
      [] p = "podi" ->
           << [ingredient |-> Rice, quantity |-> 10 * Micro, quantity_unit |-> "gm"],
              [ingredient |-> Coconut, quantity |-> 5 * Micro, quantity_unit |-> "gm"] >>
      [] p = "pinch" ->
           << [ingredient |-> Rice, quantity |-> Milli, quantity_unit |-> "gm"] >>
      [] p = "rasam" ->
           << [ingredient |-> Rice, quantity |-> 50 * Micro, quantity_unit |-> "gm"] >>
      [] OTHER -> << >>

\* PreparedItem.recipe_items
recipe_items(p) == recipes[p]

Combos == {"A", "B", "C", "D", "E"}

\* the ComboItem rows the catalog starts with, ordered by display_order
InitialComboItems(c) ==
    CASE c = "A" -> << [prepared_item |-> "idli", quantity |-> 2],
                       [prepared_item |-> "sambar", quantity |-> 1] >>
      [] c = "B" -> << [prepared_item |-> "chutney", quantity |-> 3] >>
      [] c = "C" -> << [prepared_item |-> "podi", quantity |-> 2] >>
      [] c = "D" -> << [prepared_item |-> "pinch", quantity |-> 1] >>
      [] OTHER -> << >>

\* the ComboItem rows
ComboLines == {cl \in Combos \X {1, 2} : cl[2] <= Len(InitialComboItems(cl[1]))}

\* Combo.items, ordered by display_order
combo_items(c) ==
    [k \in DOMAIN InitialComboItems(c) |->
        [prepared_item |-> InitialComboItems(c)[k].prepared_item,
         quantity |-> combo_quantity[<<c, k>>]]]

\* Combo.selling_price (paise)
selling_price(c) == IF c = "A" THEN 1000 ELSE 5000

AllOrders == {1, 2}
\* the orders of the kitchen specification
KitchenOrders == {1, 3, 4}
\* the ids of the orders the checkout endpoint creates, each 1 x combo A
NewOrders == {11, 12, 13}

\* Order.is_scheduled, with scheduled_for already due
is_scheduled(o) == o = 1

\* Order.order_combos / order_items / order_snacks
order_combos(o) ==
    IF o = 1 \/ o \in NewOrders
    THEN << [combo |-> "A", quantity |-> 1] >> ELSE << >>
order_items(o) ==
    CASE o = 2 -> << [prepared_item |-> "idli", quantity |-> 2] >>
      [] o = 3 -> << [prepared_item |-> "plain", quantity |-> 1] >>
      [] o = 4 -> << [prepared_item |-> "rasam", quantity |-> 1] >>
      [] OTHER -> << >>
order_snacks(o) == IF o = 2 THEN 2 ELSE 0

\* everything that carries an is_active column
Activatable == Combos \cup PreparedItems \cup AllIngredients


-----------------------------------------------------------------------------
(* Decimal arithmetic                                                      *)

Abs(x) == IF x < 0 THEN -x ELSE x
Sign(x) == IF x < 0 THEN -1 ELSE 1

RECURSIVE Gcd(_, _)
Gcd(a, b) == IF b = 0 THEN a ELSE Gcd(b, a % b)

\* A Decimal value n/d (d > 0), kept in lowest terms
Frac(n, d) ==
    LET g == Gcd(Abs(n), d) IN
    IF n = 0 THEN [n |-> 0, d |-> 1] ELSE [n |-> n \div g, d |-> d \div g]

\* Decimal.quantize(..., ROUND_HALF_UP) of n/d to an integer (ties away from 0)
RoundHalfUp(n, d) ==
    LET a == Abs(n)
        q == a \div d
        r == a % d
    IN Sign(n) * (IF 2 * r >= d THEN q + 1 ELSE q)

\* Decimal.quantize(...) under the default context (ROUND_HALF_EVEN)
RoundHalfEven(n, d) ==
    LET a == Abs(n)
        q == a \div d
        r == a % d
    IN Sign(n) * (IF 2 * r > d \/ (2 * r = d /\ q % 2 = 1) THEN q + 1 ELSE q)

\* A quantity_change as the DecimalField(decimal_places=3) column stores it
StoreQty(f) == Milli * RoundHalfEven(f.n, f.d * Milli)

-----------------------------------------------------------------------------
(* Unit conversion: Ingredient.to_base_unit                                *)

Units == {"g", "gram", "grams", "gm", "kg", "ml", "millilitre", "milliliter",
          "ltr", "l", "litre", "pcs", "pc", "piece", "pieces", "cup",
          "KG", " gm ", "Pcs", ""}

\* (unit or "").strip().lower(), on the strings of Units
StripLower(unit) ==
    CASE unit = "KG" -> "kg"
      [] unit = " gm " -> "gm"
      [] unit = "Pcs" -> "pcs"
      [] OTHER -> unit

\* the aliases dictionary, with aliases.get(u, u)
Alias(u) ==
    CASE u \in {"g", "gram", "grams"} -> "gm"
      [] u = "kg" -> "kg"
      [] u \in {"ml", "millilitre", "milliliter"} -> "ml"
      [] u \in {"ltr", "l", "litre"} -> "ltr"
      [] u \in {"pcs", "pc", "piece", "pieces"} -> "pcs"
      [] OTHER -> u

\* to_base_unit without the dimension check: any unit it does not scale is
\* taken as the base unit
to_base_unit_any_unit(base, qty, unit) ==
    LET u == Alias(StripLower(unit)) IN
    CASE base = "kg" /\ u = "gm" -> [ok |-> TRUE, value |-> Frac(qty.n, qty.d * 1000)]
      [] base = "ltr" /\ u = "ml" -> [ok |-> TRUE, value |-> Frac(qty.n, qty.d * 1000)]
      [] OTHER -> [ok |-> TRUE, value |-> qty]

\* to_base_unit that divides by 1000 whatever the unit
to_base_unit_always_scaled(base, qty, unit) ==
    LET u == Alias(StripLower(unit)) IN
    CASE base = "kg" /\ u \in {"gm", "kg"} ->
           [ok |-> TRUE, value |-> Frac(qty.n, qty.d * 1000)]
      [] base = "ltr" /\ u \in {"ml", "ltr"} ->
           [ok |-> TRUE, value |-> Frac(qty.n, qty.d * 1000)]
      [] base = "pcs" /\ u = "pcs" -> [ok |-> TRUE, value |-> qty]
      [] OTHER -> [ok |-> FALSE, value |-> qty]

\* qty is a Frac; the result is [ok, value] with value a Frac in the base unit,
\* ok = FALSE standing for the ValidationError "Invalid unit conversion"
to_base_unit(base, qty, unit) ==
    LET u == Alias(StripLower(unit)) IN
    CASE base = "kg" /\ u = "gm" -> [ok |-> TRUE, value |-> Frac(qty.n, qty.d * 1000)]
      [] base = "kg" /\ u = "kg" -> [ok |-> TRUE, value |-> qty]
      [] base = "ltr" /\ u = "ml" -> [ok |-> TRUE, value |-> Frac(qty.n, qty.d * 1000)]
      [] base = "ltr" /\ u = "ltr" -> [ok |-> TRUE, value |-> qty]
      [] base = "pcs" /\ u = "pcs" -> [ok |-> TRUE, value |-> qty]
      [] OTHER -> [ok |-> FALSE, value |-> qty]

-----------------------------------------------------------------------------
(* Ledger store and stock aggregator                                       *)

RECURSIVE SumQty(_)
SumQty(s) == IF s = << >> THEN 0 ELSE Head(s).quantity_change + SumQty(Tail(s))

\* the deprecated Ingredient._stock_qty column: read by initialize_ledger,
\* written by nothing
_stock_qty(i) == IF i = Rice THEN 250 * Milli ELSE 0

\* stock read from the deprecated column instead of the ledger
stock_qty_column(i) == _stock_qty(i)

\* Ingredient.stock_ledger
stock_ledger(i) == SelectSeq(ledger, LAMBDA e : e.ingredient = i)

\* Ingredient.stock_qty (property): Sum('quantity_change') over the ledger, or QTY0
stock_qty(i) == SumQty(stock_ledger(i))

\* rows that no order created (opening, purchase, adjustment, wastage)
Manual(l) == Len(SelectSeq(l, LAMBDA e : e.change_type # "consumption"))

\* IngredientStockLedger.objects.create(...)
Entry(i, kind, qty, o, p, c) ==
    [ingredient |-> i, change_type |-> kind, quantity_change |-> qty,
     related_order |-> o, related_prepared_item |-> p, related_combo |-> c]

-----------------------------------------------------------------------------
(* Costing engine: Ingredient.cost_for_quantity and the cost cascade        *)

\* what a costing call returns (ok, value in paise) or raises (error: the
\* message of the ValidationError)
Price(v) == [ok |-> TRUE, value |-> v, error |-> ""]
Raise(msg) == [ok |-> FALSE, value |-> 0, error |-> msg]

\* a quantity in micro-units as a number of whole units
InUnits(f) == Frac(f.n, f.d * Micro)

\* cost_for_quantity that tries the fallback price before the strict setting
cost_for_quantity_fallback_first(price, i, qty, qty_unit) ==
    LET qty_base == to_base_unit(IngUnit(i), qty, qty_unit)
        q == InUnits(qty_base.value)
        fallback == fallback_cost_per_unit[i]
    IN IF ~qty_base.ok THEN Raise("Invalid unit conversion")
       ELSE IF stock_qty(i) = 0
            THEN IF allow_fallback /\ fallback # Null /\ fallback # 0
                 THEN Price(RoundHalfEven(q.n * fallback, q.d))
                 ELSE Raise("Cost blocked")
            ELSE Price(RoundHalfUp(q.n * price[i], q.d))

\* cost_for_quantity that rounds the fallback product half-up as well
cost_for_quantity_fallback_half_up(price, i, qty, qty_unit) ==
    LET qty_base == to_base_unit(IngUnit(i), qty, qty_unit)
        q == InUnits(qty_base.value)
        fallback == fallback_cost_per_unit[i]
    IN IF ~qty_base.ok THEN Raise("Invalid unit conversion")
       ELSE IF stock_qty(i) = 0
            THEN IF strict THEN Raise("Cost blocked")
                 ELSE IF allow_fallback /\ fallback # Null /\ fallback # 0
                      THEN Price(RoundHalfUp(q.n * fallback, q.d))
                      ELSE Raise("no fallback cost")
            ELSE Price(RoundHalfUp(q.n * price[i], q.d))

\* cost_for_quantity that quantizes every product under the default context
cost_for_quantity_default_rounding(price, i, qty, qty_unit) ==
    LET qty_base == to_base_unit(IngUnit(i), qty, qty_unit)
        q == InUnits(qty_base.value)
        fallback == fallback_cost_per_unit[i]
    IN IF ~qty_base.ok THEN Raise("Invalid unit conversion")
       ELSE IF stock_qty(i) = 0
            THEN IF strict THEN Raise("Cost blocked")
                 ELSE IF allow_fallback /\ fallback # Null /\ fallback # 0
                      THEN Price(RoundHalfEven(q.n * fallback, q.d))
                      ELSE Raise("no fallback cost")
            ELSE Price(RoundHalfEven(q.n * price[i], q.d))

\* Ingredient.cost_for_quantity(qty, qty_unit), with cost_per_unit = price[i];
\* qty is a Frac in micro-units of qty_unit
cost_for_quantity(price, i, qty, qty_unit) ==
    LET qty_base == to_base_unit(IngUnit(i), qty, qty_unit)
        q == InUnits(qty_base.value)
        fallback == fallback_cost_per_unit[i]
    IN IF ~qty_base.ok THEN Raise("Invalid unit conversion")
       ELSE IF stock_qty(i) = 0
            THEN IF strict THEN Raise("Cost blocked")
                 ELSE IF allow_fallback /\ fallback # Null /\ fallback # 0
                      THEN Price(RoundHalfEven(q.n * fallback, q.d))
                      ELSE Raise("no fallback cost")
            ELSE Price(RoundHalfUp(q.n * price[i], q.d))

\* PreparedItemRecipe.ingredient_cost(): the cost, quantized again
ingredient_cost(price, r) ==
    LET c == cost_for_quantity(price, r.ingredient, Frac(r.quantity, 1),
                               r.quantity_unit)
    IN IF c.ok THEN Price(RoundHalfUp(c.value, 1)) ELSE c

\* the loop `total += r.ingredient_cost()`: the first line that raises ends it
RECURSIVE SumLines(_, _, _)
SumLines(price, lines, total) ==
    IF lines = << >> THEN Price(total)
    ELSE LET c == ingredient_cost(price, Head(lines))
         IN IF c.ok THEN SumLines(price, Tail(lines), total + c.value) ELSE c

\* the value PreparedItem.recompute_and_cache_cost() caches, or what it raises
recompute_cost(price, p) == SumLines(price, recipe_items(p), 0)

\* a cost_cached that forgets the multiplier
cost_cached_of_one_serving(cached_cost, quantity) ==
    IF cached_cost > 0 THEN RoundHalfUp(cached_cost, 1) ELSE 0

\* the cost_cached that ComboItem.save() computes from the prepared item's
\* cost_price_cached and the row's quantity
cost_cached_of(cached_cost, quantity) ==
    IF cached_cost > 0 THEN RoundHalfUp(cached_cost * quantity, 1) ELSE 0

\* ComboItem.save(): cost_cached from the prepared item's cached cost
ComboItemSave(cached, cl) ==
    LET ci == combo_items(cl[1])[cl[2]] IN
    cost_cached_of(cached[ci.prepared_item], ci.quantity)

\* the writes of recompute_and_cache_cost() once the recipe lines summed to r:
\* the item's cost_price_cached, then the save() of each of its ComboItem
\* rows; when the sum raised, nothing was written
cache_cost(c, p, r) ==
    LET item == [c.item EXCEPT ![p] = r.value]
    IN IF ~r.ok THEN c
       ELSE [item |-> item,
             line |-> [cl \in ComboLines |->
                          IF combo_items(cl[1])[cl[2]].prepared_item = p
                          THEN ComboItemSave(item, cl)
                          ELSE c.line[cl]]]

\* PreparedItem.recompute_and_cache_cost() on the caches c = [item, line]
recompute_and_cache_cost(price, c, p) == cache_cost(c, p, recompute_cost(price, p))

\* PreparedItemRecipe.objects.filter(ingredient=i): the prepared item of each
ItemOrder == <<"idli", "sambar", "chutney", "podi", "plain", "pinch", "rasam">>
Dependents(i) ==
    SelectSeq(ItemOrder, LAMBDA p : \E k \in DOMAIN recipe_items(p) :
                                        recipe_items(p)[k].ingredient = i)

\* on_ingredient_change: recompute every dependent item; an exception is
\* logged and the loop goes on
RECURSIVE on_ingredient_change(_, _, _)
on_ingredient_change(price, c, items) ==
    IF items = << >> THEN c
    ELSE on_ingredient_change(price,
                              recompute_and_cache_cost(price, c, Head(items)),
                              Tail(items))

\* Combo.total_cost
RECURSIVE SumCached(_, _)
SumCached(c, k) == IF k = 0 THEN 0 ELSE SumCached(c, k - 1) + cost_cached[<<c, k>>]
total_cost(c) == SumCached(c, Len(combo_items(c)))

\* Combo.profit
profit(c) == selling_price(c) - total_cost(c)

NoQuote == [op |-> "none", ingredient |-> NoItem, qty |-> 0, unit |-> "",
            ok |-> FALSE, value |-> 0, error |-> ""]

-----------------------------------------------------------------------------
(* Availability calculator                                                 *)

\* the "large number for unlimited" the min-reductions start from
Unlimited == 999999

Min2(a, b) == IF a < b THEN a ELSE b

\* stock // required_base for a positive stock (micro-units) and a positive
\* Frac of micro-units
FloorDiv(stock, required_base) == (stock * required_base.d) \div required_base.n

\* the loop of get_available_quantity over the recipe lines, `available`
\* being the minimum so far; a return of 0 inside the loop ends it
RECURSIVE AvailableLines(_, _)
AvailableLines(lines, available) ==
    IF lines = << >> THEN Price(available)
    ELSE LET r == Head(lines)
             required_base == to_base_unit(IngUnit(r.ingredient),
                                           Frac(r.quantity, 1), r.quantity_unit)
         IN IF ~required_base.ok THEN Raise("Invalid unit conversion")
            ELSE IF required_base.value.n <= 0 THEN Price(0)
            ELSE IF stock_qty(r.ingredient) <= 0 THEN Price(0)
            ELSE AvailableLines(
                     Tail(lines),
                     Min2(available,
                          FloorDiv(stock_qty(r.ingredient), required_base.value)))

\* servings_per_batch = self.batch_output_quantity // self.serving_size
servings_per_batch_available(output, size) == output \div size

\* PreparedItem.get_available_quantity()
get_available_quantity(p) ==
    IF recipe_items(p) = << >> THEN Price(0)
    ELSE IF production_mode(p) = "per_serving"
    THEN AvailableLines(recipe_items(p), Unlimited)
    ELSE IF batch_output_quantity(p) = Null THEN Price(0)
    ELSE LET available_batches == AvailableLines(recipe_items(p), Unlimited)
             servings_per_batch ==
                 servings_per_batch_available(batch_output_quantity(p),
                                              serving_size(p))
         IN IF ~available_batches.ok THEN available_batches
            ELSE Price(available_batches.value * servings_per_batch)

\* item_available = prepared_available // item.quantity
item_available_of(prepared_available, quantity) == prepared_available \div quantity

\* the loop of Combo.available_quantity over the combo items
RECURSIVE AvailableItems(_, _)
AvailableItems(items, available) ==
    IF items = << >> THEN Price(available)
    ELSE LET item == Head(items)
             prepared_available == get_available_quantity(item.prepared_item)
         IN IF ~prepared_available.ok THEN prepared_available
            ELSE IF prepared_available.value = 0 THEN Price(0)
            ELSE AvailableItems(
                     Tail(items),
                     Min2(available,
                          item_available_of(prepared_available.value, item.quantity)))

\* Combo.available_quantity
available_quantity(c) ==
    IF combo_items(c) = << >> THEN Price(0)
    ELSE AvailableItems(combo_items(c), Unlimited)

-----------------------------------------------------------------------------
(* Order confirmation: Order.confirm_order and its helpers                 *)

\* servings_per_batch = prepared_item.batch_output_quantity / serving_size
servings_per_batch_consumed(output, size) == Frac(output, size)

\* the BATCH branch: recipe.quantity * (quantity / servings_per_batch)
batch_consumption(output, size, recipe_quantity, quantity) ==
    LET servings_per_batch == servings_per_batch_consumed(output, size)
        batches_needed == Frac(quantity * servings_per_batch.d,
                               servings_per_batch.n)
    IN Frac(recipe_quantity * batches_needed.n, batches_needed.d)

\* consumption of one recipe line for `quantity` servings, in the line's unit;
\* ok = FALSE stands for the TypeError of dividing None by serving_size
Consumption(p, r, quantity) ==
    IF production_mode(p) = "per_serving"
    THEN [ok |-> TRUE, value |-> Frac(r.quantity * quantity, 1)]
    ELSE IF batch_output_quantity(p) = Null
         THEN [ok |-> FALSE, value |-> Frac(0, 1)]
         ELSE [ok |-> TRUE,
               value |-> batch_consumption(batch_output_quantity(p),
                                           serving_size(p), r.quantity, quantity)]

\* the loop of _deduct_prepared_item_stock_for_quantity over the recipe lines:
\* entries holds the rows created before the first line that raised
RECURSIVE DeductLines(_, _, _, _, _)
DeductLines(o, p, quantity, c, lines) ==
    IF lines = << >> THEN [ok |-> TRUE, entries |-> << >>]
    ELSE LET r == Head(lines)
             cons == Consumption(p, r, quantity)
             base == to_base_unit(IngUnit(r.ingredient), cons.value, r.quantity_unit)
         IN IF ~cons.ok \/ ~base.ok
            THEN [ok |-> FALSE, entries |-> << >>]
            ELSE LET rest == DeductLines(o, p, quantity, c, Tail(lines))
                     e == Entry(r.ingredient, "consumption", -StoreQty(base.value),
                                o, p, c)
                 IN [ok |-> rest.ok, entries |-> <<e>> \o rest.entries]

_deduct_prepared_item_stock_for_quantity(o, p, quantity, c) ==
    DeductLines(o, p, quantity, c, recipe_items(p))

\* _deduct_combo_stock: one job per combo item, quantity multiplied
ComboJobs(oc) ==
    [k \in 1..Len(combo_items(oc.combo)) |->
        [prepared_item |-> combo_items(oc.combo)[k].prepared_item,
         quantity |-> combo_items(oc.combo)[k].quantity * oc.quantity,
         combo |-> oc.combo]]

RECURSIVE Flatten(_)
Flatten(ss) == IF ss = << >> THEN << >> ELSE Head(ss) \o Flatten(Tail(ss))

\* the prepared-item deductions of an order, combos first, then standalone items
OrderJobs(o) ==
    Flatten([k \in 1..Len(order_combos(o)) |-> ComboJobs(order_combos(o)[k])])
    \o [k \in 1..Len(order_items(o)) |->
          [prepared_item |-> order_items(o)[k].prepared_item,
           quantity |-> order_items(o)[k].quantity,
           combo |-> NoCombo]]

RECURSIVE DeductJobs(_, _)
DeductJobs(o, jobs) ==
    IF jobs = << >> THEN [ok |-> TRUE, entries |-> << >>]
    ELSE LET j == Head(jobs)
             one == _deduct_prepared_item_stock_for_quantity(
                        o, j.prepared_item, j.quantity, j.combo)
         IN IF ~one.ok THEN one
            ELSE LET rest == DeductJobs(o, Tail(jobs))
                 IN [ok |-> rest.ok, entries |-> one.entries \o rest.entries]

\* Snack.next_consumable_batch(): the oldest received batch with units left,
\* 0 for None
next_consumable_batch(batches) ==
    LET ks == {k \in 1..Len(batches) :
                  batches[k].received /\ batches[k].units_remaining > 0}
    IN IF ks = {} THEN 0 ELSE CHOOSE k \in ks : \A j \in ks : k <= j

\* the while loop of _deduct_snack_stock, with SnackBatch.consume
RECURSIVE ConsumeSnack(_, _)
ConsumeSnack(batches, quantity_needed) ==
    IF quantity_needed <= 0 THEN [ok |-> TRUE, batches |-> batches]
    ELSE LET k == next_consumable_batch(batches) IN
         IF k = 0 THEN [ok |-> FALSE, batches |-> batches]
         ELSE LET consume_qty == IF quantity_needed < batches[k].units_remaining
                                 THEN quantity_needed
                                 ELSE batches[k].units_remaining
              IN ConsumeSnack(
                     [batches EXCEPT ![k].units_remaining = @ - consume_qty],
                     quantity_needed - consume_qty)

_deduct_snack_stock(batches, o) == ConsumeSnack(batches, order_snacks(o))

\* everything the body of confirm_order's atomic block writes before it
\* finishes or raises
Deductions(o) ==
    LET d == DeductJobs(o, OrderJobs(o))
        s == _deduct_snack_stock(snack_batches, o)
    IN IF ~d.ok THEN [ok |-> FALSE, entries |-> d.entries, batches |-> snack_batches]
       ELSE [ok |-> s.ok, entries |-> d.entries, batches |-> s.batches]

\* the ledger if every row were committed as it is created (no transaction)
AutocommitLedger(r) == ledger \o r.entries

\* transaction.atomic(): the block's writes persist only when it did not raise
AtomicLedger(r) == IF r.ok THEN ledger \o r.entries ELSE ledger
AtomicBatches(r) == IF r.ok THEN r.batches ELSE snack_batches

\* wrote: the ledger rows the handler had created when it returned or raised
Outcome(op, result, wrote) == [op |-> op, result |-> result, wrote |-> wrote]

\* the outcome of Order.confirm_order() on the instance m
confirm_order_result(m) ==
    IF m.status # "placed" \/ m.order \notin orders
    THEN [ok |-> FALSE, entries |-> << >>, batches |-> snack_batches]
    ELSE Deductions(m.order)

-----------------------------------------------------------------------------
(* Initial state                                                           *)

\* no handler is in flight and no order carries an idempotency key
InitIdle ==
    /\ metadata = [o \in orders |-> NoKey]
    /\ procs = << >>

\* the catalog rows as they were created
InitCatalog ==
    /\ recipes = [p \in PreparedItems |-> InitialRecipes(p)]
    /\ combo_quantity =
           [cl \in ComboLines |-> InitialComboItems(cl[1])[cl[2]].quantity]
    /\ is_active = [x \in Activatable |-> TRUE]

InitCatalogCosts ==
    /\ InitCatalog
    /\ cost_per_unit = [i \in AllIngredients |-> 5000]
    /\ fallback_cost_per_unit = [i \in AllIngredients |-> Null]
    /\ cost_price_cached = [p \in PreparedItems |-> 0]
    /\ cost_cached = [cl \in ComboLines |-> 0]

InitStore ==
    /\ ledger = << >>
    /\ ingredients = AllIngredients
    /\ orders = AllOrders
    /\ status = [o \in AllOrders |-> "placed"]
    /\ events = [o \in AllOrders |-> << >>]
    /\ snack_batches = << [units_remaining |-> 1, received |-> TRUE],
                          [units_remaining |-> 1, received |-> FALSE] >>
    /\ last = Outcome("init", "ok", 0)
    /\ InitIdle

Init ==
    /\ InitStore
    /\ InitCatalogCosts
    /\ strict = TRUE
    /\ allow_fallback = TRUE
    /\ quote = NoQuote

\* the catalog and costing state, which the order and stock operations leave alone
CostVars == <<cost_per_unit, fallback_cost_per_unit, cost_price_cached,
              cost_cached, strict, allow_fallback, quote,
              recipes, combo_quantity, is_active, metadata, procs>>

-----------------------------------------------------------------------------
(* Order operations                                                        *)

\* the Order instance a handler gets when it fetches row o
Fetch(o) == [order |-> o, status |-> status[o]]

\* Order.confirm_order() on the instance m
ConfirmOrderOn(m) ==
    LET r == confirm_order_result(m) IN
    /\ Len(AtomicLedger(r)) <= MaxLedger
    /\ ledger' = AtomicLedger(r)
    /\ snack_batches' = AtomicBatches(r)
    /\ status' = IF r.ok THEN [status EXCEPT ![m.order] = "confirmed"] ELSE status
    /\ last' = Outcome("confirm_order", IF r.ok THEN "committed" ELSE "failed",
                       Len(r.entries))
    /\ UNCHANGED <<ingredients, orders, events>>
    /\ UNCHANGED CostVars

\* the outcome of services.prepare_order(order), itself @transaction.atomic
prepare_order_result(m) ==
    IF m.status # "confirmed"
    THEN [ok |-> FALSE, entries |-> << >>, batches |-> snack_batches]
    ELSE confirm_order_result(m)

PrepareOrderOn(m) ==
    LET r == prepare_order_result(m) IN
    /\ Len(AtomicLedger(r)) <= MaxLedger
    /\ ledger' = AtomicLedger(r)
    /\ snack_batches' = AtomicBatches(r)
    /\ status' = IF r.ok THEN [status EXCEPT ![m.order] = "preparing"] ELSE status
    /\ events' = IF r.ok THEN [events EXCEPT ![m.order] = Append(@, "preparing")]
                 ELSE events
    /\ last' = Outcome("prepare_order", IF r.ok THEN "committed" ELSE "failed",
                       Len(r.entries))
    /\ UNCHANGED <<ingredients, orders>>
    /\ UNCHANGED CostVars

\* services.confirm_order(order): Order has no STATUS_PENDING, so the first
\* line raises AttributeError and the transaction writes nothing
ServiceConfirmOrderOn(m) ==
    /\ last' = Outcome("services.confirm_order", "failed", 0)
    /\ UNCHANGED <<ledger, ingredients, orders, status, snack_batches, events>>
    /\ UNCHANGED CostVars

\* the handlers run on a freshly fetched instance
ConfirmOrder(o) == o \in orders /\ ConfirmOrderOn(Fetch(o))
PrepareOrder(o) == o \in orders /\ PrepareOrderOn(Fetch(o))
ServiceConfirmOrder(o) == o \in orders /\ ServiceConfirmOrderOn(Fetch(o))

\* OrderAdmin.confirm_orders on a queryset locked with select_for_update
AdminConfirmOrders(o) ==
    /\ o \in orders
    /\ status[o] = "placed"
    /\ status' = [status EXCEPT ![o] = "confirmed"]
    /\ events' = [events EXCEPT ![o] = Append(@, "confirmed")]
    /\ last' = Outcome("admin.confirm_orders", "ok", 0)
    /\ UNCHANGED <<ledger, ingredients, orders, snack_batches>>
    /\ UNCHANGED CostVars

\* cancel_order without its early return: an event for every call
cancel_order_events_every_call(m) == << "cancelled" >>

\* the OrderEvent rows services.cancel_order(order) creates
cancel_order_events(m) ==
    IF m.status = "cancelled" THEN << >> ELSE << "cancelled" >>

\* services.cancel_order(order) on the instance m
CancelOrderOn(m) ==
    /\ status' = IF m.status = "cancelled" THEN status
                 ELSE [status EXCEPT ![m.order] = "cancelled"]
    /\ events' = [events EXCEPT ![m.order] = @ \o cancel_order_events(m)]
    /\ last' = Outcome("cancel_order",
                       IF m.status = "cancelled" THEN "skipped" ELSE "ok", 0)
    /\ UNCHANGED <<ledger, ingredients, orders, snack_batches>>
    /\ UNCHANGED CostVars

CancelOrder(o) == o \in orders /\ CancelOrderOn(Fetch(o))

\* OrderAdmin.start_preparing on a queryset locked with select_for_update:
\* status and event only, no stock deduction
StartPreparing(o) ==
    /\ o \in orders
    /\ status[o] = "confirmed"
    /\ status' = [status EXCEPT ![o] = "preparing"]
    /\ events' = [events EXCEPT ![o] = Append(@, "preparing")]
    /\ last' = Outcome("admin.start_preparing", "ok", 0)
    /\ UNCHANGED <<ledger, ingredients, orders, snack_batches>>
    /\ UNCHANGED CostVars

\* services.process_scheduled_orders for one order of check_scheduled_orders():
\* the auto-confirmation is saved outside any transaction, then prepare_order
\* runs on the same instance and its exception is swallowed
ProcessScheduledOrders(o) ==
    LET m == [order |-> o, status |-> "confirmed"]
        r == prepare_order_result(m)
    IN
    /\ o \in orders
    /\ is_scheduled(o)
    /\ status[o] = "placed"
    /\ Len(AtomicLedger(r)) <= MaxLedger
    /\ ledger' = AtomicLedger(r)
    /\ snack_batches' = AtomicBatches(r)
    /\ status' = [status EXCEPT ![o] = IF r.ok THEN "preparing" ELSE "confirmed"]
    /\ events' = [events EXCEPT ![o] =
                      IF r.ok THEN @ \o << "confirmed", "preparing" >>
                      ELSE Append(@, "confirmed")]
    /\ last' = Outcome("process_scheduled_orders",
                       IF r.ok THEN "committed" ELSE "failed", Len(r.entries))
    /\ UNCHANGED <<ingredients, orders>>
    /\ UNCHANGED CostVars

\* the admin change form of a combo, a prepared item or an ingredient saved
\* with its is_active box flipped
SetActive(x) ==
    /\ is_active' = [is_active EXCEPT ![x] = ~@]
    /\ last' = Outcome("set_active", "ok", 0)
    /\ UNCHANGED <<metadata, procs, ledger, ingredients, orders, status, snack_batches,
                   events>>
    /\ UNCHANGED <<cost_per_unit, fallback_cost_per_unit, cost_price_cached,
                   cost_cached, strict, allow_fallback, quote, recipes,
                   combo_quantity>>

\* on_delete=SET_NULL of IngredientStockLedger.related_order
SetNullOrder(e, o) ==
    IF e.related_order = o THEN [e EXCEPT !.related_order = NoOrder] ELSE e

\* cleanup_orders: old_orders.delete()
CleanupOrders(o) ==
    /\ o \in orders
    /\ orders' = orders \ {o}
    /\ ledger' = [k \in 1..Len(ledger) |-> SetNullOrder(ledger[k], o)]
    /\ events' = [events EXCEPT ![o] = << >>]
    /\ last' = Outcome("cleanup_orders", "ok", 0)
    /\ UNCHANGED <<ingredients, status, snack_batches>>
    /\ UNCHANGED CostVars

\* SnackBatchAdmin.mark_as_received on batch k
MarkAsReceived(k) ==
    /\ ~snack_batches[k].received
    /\ snack_batches' = [snack_batches EXCEPT ![k].received = TRUE]
    /\ last' = Outcome("mark_as_received", "ok", 0)
    /\ UNCHANGED <<ledger, ingredients, orders, status, events>>
    /\ UNCHANGED CostVars

-----------------------------------------------------------------------------
(* Stock operations                                                        *)

\* total_quantity_needed = recipe.quantity * batch_size
total_quantity_needed(recipe_quantity, batch_size) == recipe_quantity * batch_size

\* the loop of create_kitchen_batch over the recipe lines
RECURSIVE KitchenLines(_, _, _)
KitchenLines(p, batch_size, lines) ==
    IF lines = << >> THEN [ok |-> TRUE, entries |-> << >>]
    ELSE LET r == Head(lines)
             base == to_base_unit(IngUnit(r.ingredient),
                                  Frac(total_quantity_needed(r.quantity, batch_size), 1),
                                  r.quantity_unit)
         IN IF ~base.ok
            THEN [ok |-> FALSE, entries |-> << >>]
            ELSE LET rest == KitchenLines(p, batch_size, Tail(lines))
                     e == Entry(r.ingredient, "adjustment", -StoreQty(base.value),
                                NoOrder, p, NoCombo)
                 IN [ok |-> rest.ok, entries |-> <<e>> \o rest.entries]

kitchen_batch_result(p, batch_size) ==
    IF recipe_items(p) = << >> \/ batch_size <= 0
    THEN [ok |-> FALSE, entries |-> << >>]
    ELSE KitchenLines(p, batch_size, recipe_items(p))

BatchSizes == {0, 1}
\* the prepared items the kitchen pre-produces
KitchenItems == {"idli", "sambar", "chutney", "podi", "plain"}

\* kitchen_batch.create_kitchen_batch(prepared_item, batch_size)
CreateKitchenBatch(p, batch_size) ==
    LET r == kitchen_batch_result(p, batch_size) IN
    /\ Len(AtomicLedger(r)) <= MaxLedger
    /\ Manual(AtomicLedger(r)) <= MaxManual
    /\ ledger' = AtomicLedger(r)
    /\ last' = Outcome("create_kitchen_batch",
                       IF r.ok THEN "committed" ELSE "failed", Len(r.entries))
    /\ UNCHANGED <<ingredients, orders, status, snack_batches, events>>
    /\ UNCHANGED CostVars

\* the ingredients and values the setter is called with
Adjusted == {Rice}
StockValues == {0, 250 * Milli}

\* the rows the stock_qty setter creates for `ingredient.stock_qty = value`
stock_qty_setter(i, value) ==
    LET current_stock == stock_qty(i)
        difference == value - current_stock
    IN IF difference # 0
       THEN << Entry(i, "adjustment", StoreQty(Frac(difference, 1)),
                     NoOrder, NoItem, NoCombo) >>
       ELSE << >>

SetStockQty(i, value) ==
    /\ i \in ingredients
    /\ Len(ledger) < MaxLedger
    /\ Manual(ledger) < MaxManual
    /\ ledger' = ledger \o stock_qty_setter(i, value)
    /\ last' = Outcome("stock_qty.setter", "ok", Len(stock_qty_setter(i, value)))
    /\ UNCHANGED <<ingredients, orders, status, snack_batches, events>>
    /\ UNCHANGED CostVars

\* the ingredients purchase rows are entered for, and their quantity
Purchased == {Salt}
RestockQty(i) == IF IngUnit(i) = "kg" THEN 250 * Milli ELSE 1 * Micro

\* a PURCHASE row added through IngredientStockLedgerAdmin
Purchase(i) ==
    /\ i \in ingredients
    /\ Len(ledger) < MaxLedger
    /\ Manual(ledger) < MaxManual
    /\ ledger' = Append(ledger, Entry(i, "purchase", RestockQty(i),
                                      NoOrder, NoItem, NoCombo))
    /\ last' = Outcome("ledger_admin.add", "ok", 1)
    /\ UNCHANGED <<ingredients, orders, status, snack_batches, events>>
    /\ UNCHANGED CostVars

HasOpening(i) == \E k \in 1..Len(ledger) :
    ledger[k].ingredient = i /\ ledger[k].change_type = "opening"

\* Ingredient.objects.all() follows Meta.ordering = ["name"]
IngredientsByName == <<Coconut, Rice, Salt>>

OpeningRows ==
    LET todo == SelectSeq(IngredientsByName,
                   LAMBDA i : i \in ingredients /\ ~HasOpening(i) /\ _stock_qty(i) > 0)
    IN [k \in 1..Len(todo) |->
          Entry(todo[k], "opening", _stock_qty(todo[k]), NoOrder, NoItem, NoCombo)]

\* initialize_ledger.initialize_ledger()
InitializeLedger ==
    /\ Len(ledger) + Len(OpeningRows) <= MaxLedger
    /\ Manual(ledger) + Len(OpeningRows) <= MaxManual
    /\ ledger' = ledger \o OpeningRows
    /\ last' = Outcome("initialize_ledger", "ok", Len(OpeningRows))
    /\ UNCHANGED <<ingredients, orders, status, snack_batches, events>>
    /\ UNCHANGED CostVars

\* LOW_STOCK_LIMITS of the ingredient views, per base unit (micro-units)
LOW_STOCK_LIMITS(unit) == IF unit = "pcs" THEN 10 * Micro ELSE 1 * Micro

RECURSIVE SumOver(_, _)
SumOver(S, f) ==
    IF S = {} THEN 0
    ELSE LET x == CHOOSE x \in S : TRUE IN f[x] + SumOver(S \ {x}, f)

\* quantity x cost per unit, in thousandths of a paisa
ValueOf(qty, cost) == (qty \div Milli) * cost

\* the figures of the inventory summary over the active ingredients when
\* every ingredient's stock is qty[i]: totals, and per unit the count, total, low and out-of-stock counts
SummaryOf(qty) ==
    LET qs == {i \in ingredients : is_active[i]} IN
    [total_inventory_value |->
         SumOver(qs, [i \in qs |-> ValueOf(qty[i], cost_per_unit[i])]),
     total_quantity |-> SumOver(qs, qty),
     total_ingredients |-> Cardinality(qs),
     unit_breakdown |->
         [u \in {IngUnit(i) : i \in qs} |->
             LET rows == {i \in qs : IngUnit(i) = u} IN
             [count |-> Cardinality(rows),
              total_qty |-> SumOver(rows, qty),
              low_stock |-> Cardinality({i \in rows :
                                qty[i] > 0 /\ qty[i] <= LOW_STOCK_LIMITS(u)}),
              out_of_stock |-> Cardinality({i \in rows : qty[i] <= 0})]]]

\* IngredientViewSet.summary: the aggregates are taken over the _stock_qty
\* column of the ingredient rows
Summary ==
    /\ quote' = [op |-> "summary",
                 data |-> SummaryOf([i \in ingredients |-> _stock_qty(i)])]
    /\ last' = Outcome("summary", "ok", 0)
    /\ UNCHANGED <<metadata, procs, ledger, ingredients, orders, status,
                   snack_batches, events>>
    /\ UNCHANGED <<cost_per_unit, fallback_cost_per_unit, cost_price_cached,
                   cost_cached, strict, allow_fallback, recipes,
                   combo_quantity, is_active>>

\* PreparedItemRecipe.ingredient is on_delete=PROTECT
Protected(i) == \E p \in PreparedItems : \E k \in 1..Len(recipe_items(p)) :
    recipe_items(p)[k].ingredient = i

\* Ingredient.delete(): IngredientStockLedger.ingredient is on_delete=CASCADE
DeleteIngredient(i) ==
    /\ i \in ingredients
    /\ ~Protected(i)
    /\ ingredients' = ingredients \ {i}
    /\ ledger' = SelectSeq(ledger, LAMBDA e : e.ingredient # i)
    /\ last' = Outcome("ingredient.delete", "ok", 0)
    /\ UNCHANGED <<orders, status, snack_batches, events>>
    /\ UNCHANGED CostVars

-----------------------------------------------------------------------------
(* Specification of the ledger and the order operations                    *)

Next ==
    \/ \E o \in AllOrders : ConfirmOrder(o)
    \/ \E o \in AllOrders : PrepareOrder(o)
    \/ \E o \in AllOrders : ServiceConfirmOrder(o)
    \/ \E o \in AllOrders : AdminConfirmOrders(o)
    \/ \E o \in AllOrders : CancelOrder(o)
    \/ \E o \in AllOrders : CleanupOrders(o)
    \/ \E k \in DOMAIN snack_batches : MarkAsReceived(k)
    \/ \E p \in KitchenItems, b \in BatchSizes : CreateKitchenBatch(p, b)
    \/ \E i \in Adjusted, v \in StockValues : SetStockQty(i, v)
    \/ \E i \in Purchased : Purchase(i)
    \/ InitializeLedger
    \/ \E i \in AllIngredients : DeleteIngredient(i)

Spec == Init /\ [][Next]_vars

\* the inventory summary read between the operations that append to the ledger
NextInventory ==
    \/ \E o \in AllOrders : ConfirmOrder(o)
    \/ \E p \in KitchenItems, b \in BatchSizes : CreateKitchenBatch(p, b)
    \/ \E i \in Adjusted, v \in StockValues : SetStockQty(i, v)
    \/ \E i \in Purchased : Purchase(i)
    \/ InitializeLedger
    \/ \E i \in AllIngredients : DeleteIngredient(i)
    \/ Summary

SpecInventory == Init /\ [][NextInventory]_vars

-----------------------------------------------------------------------------
(* Costing operations                                                      *)

CostIngredients == {Rice, Coconut}
CostValues == {25, 5000}
FallbackValues == {Null, 0, 25}
QueryQty == {1 * Micro, 100 * Micro}
QueryUnits == {"gm", "kg", "pcs"}

\* a call of ingredient.cost_for_quantity(qty, qty_unit)
CostQuery(i, qty, qty_unit) ==
    LET c == cost_for_quantity(cost_per_unit, i, Frac(qty, 1), qty_unit) IN
    /\ i \in ingredients
    /\ quote' = [op |-> "cost_for_quantity", ingredient |-> i, qty |-> qty,
                 unit |-> qty_unit, ok |-> c.ok, value |-> c.value,
                 error |-> c.error]
    /\ last' = Outcome("cost_for_quantity", IF c.ok THEN "ok" ELSE "failed", 0)
    /\ UNCHANGED <<metadata, procs, ledger, ingredients, orders, status, snack_batches,
                   events,
                   cost_per_unit, fallback_cost_per_unit, cost_price_cached,
                   cost_cached, strict, allow_fallback,
                   recipes, combo_quantity, is_active>>

\* ingredient.cost_per_unit = cost; ingredient.save(): full_clean, the row
\* write, then the post_save receiver on_ingredient_change
SaveIngredient(i, cost) ==
    LET saved == stock_qty(i) >= 0
        price == [cost_per_unit EXCEPT ![i] = cost]
        c == on_ingredient_change(
                 price, [item |-> cost_price_cached, line |-> cost_cached],
                 Dependents(i))
    IN
    /\ i \in ingredients
    /\ cost_per_unit' = IF saved THEN price ELSE cost_per_unit
    /\ cost_price_cached' = IF saved THEN c.item ELSE cost_price_cached
    /\ cost_cached' = IF saved THEN c.line ELSE cost_cached
    /\ quote' = [op |-> "ingredient.save", ingredient |-> i, qty |-> 0,
                 unit |-> "", ok |-> saved, value |-> cost,
                 error |-> IF saved THEN "" ELSE "Stock cannot be negative."]
    /\ last' = Outcome("ingredient.save", IF saved THEN "saved" ELSE "failed", 0)
    /\ UNCHANGED <<metadata, procs, ledger, ingredients, orders, status, snack_batches,
                   events,
                   fallback_cost_per_unit, strict, allow_fallback,
                   recipes, combo_quantity, is_active>>

-----------------------------------------------------------------------------
(* Specification of the costing engine and the cost cascade                *)

InitCost ==
    /\ InitStore
    /\ InitCatalog
    /\ cost_per_unit = [i \in AllIngredients |-> 5000]
    /\ fallback_cost_per_unit \in
           {[i \in AllIngredients |-> f] : f \in FallbackValues}
    /\ cost_price_cached = [p \in PreparedItems |-> 0]
    /\ cost_cached = [cl \in ComboLines |-> 0]
    /\ strict \in BOOLEAN
    /\ allow_fallback \in BOOLEAN
    /\ quote = NoQuote

NextCost ==
    \/ \E i \in CostIngredients, q \in QueryQty, u \in QueryUnits : CostQuery(i, q, u)
    \/ \E i \in CostIngredients, c \in CostValues : SaveIngredient(i, c)
    \/ \E i \in CostIngredients, v \in StockValues : SetStockQty(i, v)
    \/ CreateKitchenBatch("idli", 1)

SpecCost == InitCost /\ [][NextCost]_vars

-----------------------------------------------------------------------------
(* Menu operations: recipe lines and combo items                           *)

\* the choices of PreparedItemRecipe.quantity_unit
RecipeUnitChoices == {"gm", "kg", "ml", "ltr", "pcs"}

\* PreparedItemRecipe.full_clean() of `line` as row k of p's recipe (a new row
\* when k is past the end): the field validators, clean(), validate_unique()
recipe_full_clean(p, k, line) ==
    IF line.quantity < Milli
    THEN Raise("Ensure this value is greater than or equal to 0.001.")
    ELSE IF line.quantity_unit \notin RecipeUnitChoices
    THEN Raise("not a valid choice")
    ELSE IF \E j \in DOMAIN recipes[p] :
                j # k /\ recipes[p][j].ingredient = line.ingredient
    THEN Raise("Prepared item recipe with this Prepared item and Ingredient already exists.")
    ELSE Price(0)

\* on_recipe_change for prepared item p whose recipe rows are now `lines`:
\* recompute_and_cache_cost(), an exception being logged and dropped
on_recipe_change(c, p, lines) == cache_cost(c, p, SumLines(cost_per_unit, lines, 0))

MaxRecipeLines == 2
EditedItems == {"idli"}
RecipeLineInputs ==
    { [ingredient |-> Rice, quantity |-> 50 * Micro, quantity_unit |-> "gm"],
      [ingredient |-> Rice, quantity |-> 0, quantity_unit |-> "gm"],
      [ingredient |-> Coconut, quantity |-> 5 * Micro, quantity_unit |-> "gm"],
      [ingredient |-> Coconut, quantity |-> 5 * Micro, quantity_unit |-> "cup"] }

\* a recipe row saved through the PreparedItemRecipe inline of the admin:
\* the form's full_clean, the row write, then on_recipe_change
SaveRecipeLine(p, k, line) ==
    LET v == recipe_full_clean(p, k, line)
        lines == IF k \in DOMAIN recipes[p] THEN [recipes[p] EXCEPT ![k] = line]
                 ELSE Append(recipes[p], line)
        c == on_recipe_change([item |-> cost_price_cached, line |-> cost_cached],
                              p, lines)
    IN
    /\ k \in 1..(Len(recipes[p]) + 1)
    /\ k <= MaxRecipeLines
    /\ recipes' = IF v.ok THEN [recipes EXCEPT ![p] = lines] ELSE recipes
    /\ cost_price_cached' = IF v.ok THEN c.item ELSE cost_price_cached
    /\ cost_cached' = IF v.ok THEN c.line ELSE cost_cached
    /\ quote' = [op |-> "recipe_line.full_clean", item |-> p, line |-> line,
                 ok |-> v.ok, value |-> 0, error |-> v.error]
    /\ last' = Outcome("recipe_line.save", IF v.ok THEN "saved" ELSE "failed", 0)
    /\ UNCHANGED <<metadata, procs, ledger, ingredients, orders, status, snack_batches,
                   events,
                   cost_per_unit, fallback_cost_per_unit, strict, allow_fallback,
                   combo_quantity, is_active>>

\* recipes[p] without its row k
WithoutLine(lines, k) ==
    [j \in 1..(Len(lines) - 1) |-> IF j < k THEN lines[j] ELSE lines[j + 1]]

\* a recipe row deleted: post_delete runs on_recipe_change as well
DeleteRecipeLine(p, k) ==
    LET lines == WithoutLine(recipes[p], k)
        c == on_recipe_change([item |-> cost_price_cached, line |-> cost_cached],
                              p, lines)
    IN
    /\ k \in DOMAIN recipes[p]
    /\ recipes' = [recipes EXCEPT ![p] = lines]
    /\ cost_price_cached' = c.item
    /\ cost_cached' = c.line
    /\ quote' = NoQuote
    /\ last' = Outcome("recipe_line.delete", "ok", 0)
    /\ UNCHANGED <<metadata, procs, ledger, ingredients, orders, status, snack_batches,
                   events,
                   cost_per_unit, fallback_cost_per_unit, strict, allow_fallback,
                   combo_quantity, is_active>>

EditedLines == {<<"A", 1>>}
ComboQuantities == {0, 3}

\* a ComboItem row saved with a new quantity through the admin inline: the
\* form rejects a quantity below 1; save() caches the cost; the post_save
\* receiver on_combo_item_change calls compute_cost(), which ComboItem does
\* not have, and drops the AttributeError
SaveComboItem(cl, quantity) ==
    LET valid == quantity >= 1
        p == InitialComboItems(cl[1])[cl[2]].prepared_item
    IN
    /\ combo_quantity' = IF valid THEN [combo_quantity EXCEPT ![cl] = quantity]
                         ELSE combo_quantity
    /\ cost_cached' = IF valid
                      THEN [cost_cached EXCEPT
                               ![cl] = cost_cached_of(cost_price_cached[p], quantity)]
                      ELSE cost_cached
    /\ quote' = NoQuote
    /\ last' = Outcome("combo_item.save", IF valid THEN "saved" ELSE "failed", 0)
    /\ UNCHANGED <<metadata, procs, ledger, ingredients, orders, status, snack_batches,
                   events,
                   cost_per_unit, fallback_cost_per_unit, cost_price_cached,
                   strict, allow_fallback, recipes, is_active>>

-----------------------------------------------------------------------------
(* Specification of the menu edits and the cost caches                     *)

\* the ledgers the menu is edited under: nothing purchased yet, rice
\* purchased, rice and coconut purchased
StockedLedgers ==
    { << >>,
      << Entry(Rice, "purchase", RestockQty(Rice), NoOrder, NoItem, NoCombo) >>,
      << Entry(Rice, "purchase", RestockQty(Rice), NoOrder, NoItem, NoCombo),
         Entry(Coconut, "purchase", RestockQty(Coconut), NoOrder, NoItem, NoCombo) >> }

InitMenu ==
    /\ ledger \in StockedLedgers
    /\ ingredients = AllIngredients
    /\ orders = AllOrders
    /\ status = [o \in AllOrders |-> "placed"]
    /\ events = [o \in AllOrders |-> << >>]
    /\ snack_batches = << >>
    /\ last = Outcome("init", "ok", 0)
    /\ InitIdle
    /\ InitCatalogCosts
    /\ strict = TRUE
    /\ allow_fallback = TRUE
    /\ quote = NoQuote

NextMenu ==
    \/ \E c \in CostValues : SaveIngredient(Rice, c)
    \/ \E p \in EditedItems, k \in 1..MaxRecipeLines, line \in RecipeLineInputs :
           SaveRecipeLine(p, k, line)
    \/ \E p \in EditedItems, k \in 1..MaxRecipeLines : DeleteRecipeLine(p, k)
    \/ \E cl \in EditedLines, q \in ComboQuantities : SaveComboItem(cl, q)

SpecMenu == InitMenu /\ [][NextMenu]_vars

-----------------------------------------------------------------------------
(* Availability and conversion calls                                       *)

\* a call of prepared_item.get_available_quantity()
AvailabilityQuery(p) ==
    LET a == get_available_quantity(p) IN
    /\ quote' = [op |-> "get_available_quantity", item |-> p,
                 ok |-> a.ok, value |-> a.value, error |-> a.error]
    /\ last' = Outcome("get_available_quantity", IF a.ok THEN "ok" ELSE "failed", 0)
    /\ UNCHANGED <<metadata, procs, ledger, ingredients, orders, status, snack_batches,
                   events,
                   cost_per_unit, fallback_cost_per_unit, cost_price_cached,
                   cost_cached, strict, allow_fallback,
                   recipes, combo_quantity, is_active>>

\* the orders in which recipe_items.all() can return the lines: the queryset
\* has no order_by and PreparedItemRecipe has no Meta.ordering
IterationOrders(lines) ==
    LET n == Len(lines)
        perms == {f \in [1..n -> 1..n] : \A a, b \in 1..n : a # b => f[a] # f[b]}
    IN {[k \in 1..n |-> lines[f[k]]] : f \in perms}

\* min_available = float('inf')
Infinity == Null

\* the loop of get_availability_breakdown over the lines as iterated:
\* breakdown[name] = int(stock / required_base), 0 without stock, and the
\* bottleneck moves only on a strictly smaller value
RECURSIVE BreakdownLines(_, _, _, _)
BreakdownLines(lines, breakdown, min_available, bottleneck) ==
    IF lines = << >>
    THEN [ok |-> TRUE, breakdown |-> breakdown, bottleneck |-> bottleneck,
          error |-> ""]
    ELSE LET r == Head(lines)
             required_base == to_base_unit(IngUnit(r.ingredient),
                                           Frac(r.quantity, 1), r.quantity_unit)
             available_int == IF stock_qty(r.ingredient) <= 0 THEN 0
                              ELSE FloorDiv(stock_qty(r.ingredient),
                                            required_base.value)
             smaller == min_available = Infinity \/ available_int < min_available
         IN IF ~required_base.ok
            THEN [ok |-> FALSE, breakdown |-> << >>, bottleneck |-> "none",
                  error |-> "Invalid unit conversion"]
            ELSE IF required_base.value.n <= 0
            THEN BreakdownLines(Tail(lines), breakdown, min_available, bottleneck)
            ELSE BreakdownLines(
                     Tail(lines),
                     Append(breakdown, [name |-> r.ingredient,
                                        available |-> available_int]),
                     IF smaller THEN available_int ELSE min_available,
                     IF smaller THEN r.ingredient ELSE bottleneck)

\* PreparedItem.get_availability_breakdown(), the lines iterated as `lines`
get_availability_breakdown(p, lines) ==
    IF recipe_items(p) = << >>
    THEN [ok |-> TRUE, breakdown |-> << >>, bottleneck |-> "incomplete",
          error |-> ""]
    ELSE IF production_mode(p) = "batch" /\ batch_output_quantity(p) = Null
    THEN [ok |-> TRUE, breakdown |-> << >>, bottleneck |-> "batch_output_missing",
          error |-> ""]
    ELSE BreakdownLines(lines, << >>, Infinity, "none")

\* two reads of item.availability_breakdown in the same state, with a read
\* of get_available_quantity
BreakdownQuery(p, lines, lines_again) ==
    LET a == get_available_quantity(p) IN
    /\ quote' = [op |-> "get_availability_breakdown", item |-> p,
                 lines |-> lines,
                 first |-> get_availability_breakdown(p, lines),
                 again |-> get_availability_breakdown(p, lines_again),
                 ok |-> a.ok, value |-> a.value, error |-> a.error]
    /\ last' = Outcome("get_availability_breakdown", "ok", 0)
    /\ UNCHANGED <<metadata, procs, ledger, ingredients, orders, status,
                   snack_batches, events,
                   cost_per_unit, fallback_cost_per_unit, cost_price_cached,
                   cost_cached, strict, allow_fallback,
                   recipes, combo_quantity, is_active>>

\* a read of combo.available_quantity
ComboAvailabilityQuery(c) ==
    LET a == available_quantity(c) IN
    /\ quote' = [op |-> "available_quantity", combo |-> c,
                 ok |-> a.ok, value |-> a.value, error |-> a.error]
    /\ last' = Outcome("available_quantity", IF a.ok THEN "ok" ELSE "failed", 0)
    /\ UNCHANGED <<metadata, procs, ledger, ingredients, orders, status, snack_batches,
                   events,
                   cost_per_unit, fallback_cost_per_unit, cost_price_cached,
                   cost_cached, strict, allow_fallback,
                   recipes, combo_quantity, is_active>>

\* the quantities conversions are asked for (micro-units): 0.001 and 2.5
ConvertQty == {Milli, 2500 * Milli}

\* a call of ingredient.to_base_unit(qty, unit) and, when it returned, the
\* call ingredient.to_base_unit(result, ingredient.unit) on its result
ConvertQuery(i, qty, unit) ==
    LET b == to_base_unit(IngUnit(i), Frac(qty, 1), unit)
        again == to_base_unit(IngUnit(i), b.value, IngUnit(i))
    IN
    /\ quote' = [op |-> "to_base_unit", ingredient |-> i, qty |-> qty,
                 unit |-> unit, ok |-> b.ok, value |-> b.value,
                 error |-> IF b.ok THEN "" ELSE "Invalid unit conversion",
                 again |-> IF b.ok THEN again ELSE b]
    /\ last' = Outcome("to_base_unit", IF b.ok THEN "ok" ELSE "failed", 0)
    /\ UNCHANGED <<metadata, procs, ledger, ingredients, orders, status, snack_batches,
                   events,
                   cost_per_unit, fallback_cost_per_unit, cost_price_cached,
                   cost_cached, strict, allow_fallback,
                   recipes, combo_quantity, is_active>>

-----------------------------------------------------------------------------
(* Specification of the availability calculator and the unit conversion    *)

\* the purchase rows the ledger starts with: rice 0.040, 0.200, 0.350 or
\* 1.000 kg or none, coconut 3 pcs or none
RiceStocks == {0, 40 * Milli, 200 * Milli, 350 * Milli, 1000 * Milli}
CoconutStocks == {0, 3 * Micro}

PurchaseRows(i, qty) ==
    IF qty = 0 THEN << >>
    ELSE << Entry(i, "purchase", qty, NoOrder, NoItem, NoCombo) >>

InitAvail ==
    /\ ledger \in {PurchaseRows(Rice, r) \o PurchaseRows(Coconut, c) :
                      r \in RiceStocks, c \in CoconutStocks}
    /\ ingredients = AllIngredients
    /\ orders = AllOrders
    /\ status = [o \in AllOrders |-> "placed"]
    /\ events = [o \in AllOrders |-> << >>]
    /\ snack_batches = << [units_remaining |-> 2, received |-> TRUE] >>
    /\ last = Outcome("init", "ok", 0)
    /\ InitIdle
    /\ InitCatalogCosts
    /\ strict = TRUE
    /\ allow_fallback = TRUE
    /\ quote = NoQuote

NextAvail ==
    \/ \E p \in PreparedItems : AvailabilityQuery(p)
    \/ \E c \in Combos : ComboAvailabilityQuery(c)
    \/ \E p \in PreparedItems :
           \E lines, lines_again \in IterationOrders(recipe_items(p)) :
               BreakdownQuery(p, lines, lines_again)
    \/ \E i \in AllIngredients, q \in ConvertQty, u \in Units : ConvertQuery(i, q, u)
    \/ \E o \in AllOrders : ConfirmOrder(o)

SpecAvail == InitAvail /\ [][NextAvail]_vars

-----------------------------------------------------------------------------
(* Specification of the kitchen: confirmation, preparation, cancellation   *)

\* the rows whose is_active box the admin flips: a combo, a prepared item
\* and an ingredient, all three referenced by order 1
Toggled == {"A", "idli", Rice}

\* orders 1, 3 and 4 are placed and one kilogram of rice was purchased
InitKitchen ==
    /\ ledger = PurchaseRows(Rice, 1000 * Milli)
    /\ ingredients = AllIngredients
    /\ orders = KitchenOrders
    /\ status = [o \in KitchenOrders |-> "placed"]
    /\ events = [o \in KitchenOrders |-> << >>]
    /\ snack_batches = << [units_remaining |-> 2, received |-> TRUE] >>
    /\ last = Outcome("init", "ok", 0)
    /\ InitIdle
    /\ InitCatalogCosts
    /\ strict = TRUE
    /\ allow_fallback = TRUE
    /\ quote = NoQuote

NextKitchen ==
    \/ \E o \in KitchenOrders : ConfirmOrder(o)
    \/ \E o \in KitchenOrders : PrepareOrder(o)
    \/ \E o \in KitchenOrders : AdminConfirmOrders(o)
    \/ \E o \in KitchenOrders : StartPreparing(o)
    \/ \E o \in KitchenOrders : ProcessScheduledOrders(o)
    \/ \E o \in KitchenOrders : CancelOrder(o)
    \/ \E x \in Toggled : SetActive(x)

SpecKitchen == InitKitchen /\ [][NextKitchen]_vars

-----------------------------------------------------------------------------
(* Checkout: views.create_order and its idempotency key                    *)

\* the requests in flight or answered, and the X-Idempotency-Key values
Requests == {"r1", "r2", "r3"}
Keys == {"k1", "k2"}

\* a handler is at a position
Running(w) == w \in DOMAIN procs
At(w, op, pc) == Running(w) /\ procs[w].op = op /\ procs[w].pc = pc

\* Order.objects.filter(metadata__idempotency_key=key).first(): the oldest
\* matching order, NoOrder for None
ExistingOrder(key) ==
    LET found == {o \in orders : metadata[o] = key}
    IN IF found = {} THEN NoOrder ELSE CHOOSE o \in found : \A x \in found : o <= x

\* the primary key of the next Order row
NextOrderId == CHOOSE o \in NewOrders \ orders : \A x \in NewOrders \ orders : o <= x

\* a POST arrives: header key (or none) and order.metadata.idempotency_key
\* of the JSON body (or none); the handler reads the header
ReceiveCreateOrder(w, key, body_key) ==
    /\ ~Running(w)
    /\ procs' = procs @@ (w :> [op |-> "create_order", pc |-> "lookup",
                                key |-> key, body_key |-> body_key,
                                code |-> 0, order |-> NoOrder])
    /\ last' = Outcome("create_order.receive", "ok", 0)
    /\ UNCHANGED <<ledger, ingredients, orders, status, snack_batches, events,
                   metadata>>
    /\ UNCHANGED <<cost_per_unit, fallback_cost_per_unit, cost_price_cached,
                   cost_cached, strict, allow_fallback, quote, recipes,
                   combo_quantity, is_active>>

\* the idempotency check: with a key and a matching order, answer 200 with it
LookupIdempotencyKey(w) ==
    LET existing == IF procs[w].key = NoKey THEN NoOrder
                    ELSE ExistingOrder(procs[w].key)
    IN
    /\ At(w, "create_order", "lookup")
    /\ procs' = [procs EXCEPT ![w] =
                     IF existing # NoOrder
                     THEN [@ EXCEPT !.pc = "done", !.code = 200, !.order = existing]
                     ELSE [@ EXCEPT !.pc = "save"]]
    /\ last' = Outcome("create_order.lookup",
                       IF existing # NoOrder THEN "found" ELSE "none", 0)
    /\ UNCHANGED <<ledger, ingredients, orders, status, snack_batches, events,
                   metadata>>
    /\ UNCHANGED <<cost_per_unit, fallback_cost_per_unit, cost_price_cached,
                   cost_cached, strict, allow_fallback, quote, recipes,
                   combo_quantity, is_active>>

\* what Order.metadata["idempotency_key"] becomes: request_data["metadata"]
\* set by the view is not a field of OrderCreateSerializer and is dropped;
\* the service stores the metadata of the "order" section of the body
stored_idempotency_key(key, body_key) == body_key

\* serializer.save(): create_order_from_normalized_payload in one transaction;
\* an inactive combo raises ValidationError (400); otherwise the Order row,
\* its placed event and, when the store accepts orders, the auto-confirmation
SaveOrder(w, accept_orders) ==
    LET o == NextOrderId
        available == \A k \in DOMAIN order_combos(o) :
                         is_active[order_combos(o)[k].combo]
    IN
    /\ At(w, "create_order", "save")
    /\ NewOrders \ orders # {}
    /\ IF available
       THEN /\ orders' = orders \cup {o}
            /\ metadata' = (o :> stored_idempotency_key(procs[w].key,
                                                        procs[w].body_key))
                               @@ metadata
            /\ status' = (o :> IF accept_orders THEN "confirmed" ELSE "placed")
                             @@ status
            /\ events' = (o :> IF accept_orders THEN << "placed", "confirmed" >>
                                ELSE << "placed" >>) @@ events
            /\ procs' = [procs EXCEPT ![w] =
                             [@ EXCEPT !.pc = "done", !.code = 201, !.order = o]]
            /\ last' = Outcome("create_order.save", "created", 0)
       ELSE /\ procs' = [procs EXCEPT ![w] = [@ EXCEPT !.pc = "done", !.code = 400]]
            /\ last' = Outcome("create_order.save", "failed", 0)
            /\ UNCHANGED <<orders, metadata, status, events>>
    /\ UNCHANGED <<ledger, ingredients, snack_batches>>
    /\ UNCHANGED <<cost_per_unit, fallback_cost_per_unit, cost_price_cached,
                   cost_cached, strict, allow_fallback, quote, recipes,
                   combo_quantity, is_active>>

-----------------------------------------------------------------------------
(* Specification of the checkout endpoint                                  *)

InitCheckout ==
    /\ ledger = << >>
    /\ ingredients = AllIngredients
    /\ orders = {}
    /\ status = << >>
    /\ events = << >>
    /\ snack_batches = << >>
    /\ last = Outcome("init", "ok", 0)
    /\ InitIdle
    /\ InitCatalogCosts
    /\ strict = TRUE
    /\ allow_fallback = TRUE
    /\ quote = NoQuote

NextCheckout ==
    \/ \E w \in Requests, key \in Keys \cup {NoKey}, body \in BOOLEAN :
           ReceiveCreateOrder(w, key, IF body THEN key ELSE NoKey)
    \/ \E w \in Requests : LookupIdempotencyKey(w)
    \/ \E w \in Requests, accept_orders \in BOOLEAN : SaveOrder(w, accept_orders)
    \/ SetActive("A")

SpecCheckout == InitCheckout /\ [][NextCheckout]_vars

-----------------------------------------------------------------------------
(* Order.confirm_order statement by statement, for concurrent callers      *)

\* the callers of Order.confirm_order that run side by side
Workers == {"t1", "t2"}

\* a caller fetches order o and calls confirm_order() on the instance
BeginConfirm(w, o) ==
    /\ ~Running(w)
    /\ o \in orders
    /\ procs' = procs @@ (w :> [op |-> "confirm_order", pc |-> "check",
                                m |-> Fetch(o), jobs |-> << >>,
                                written |-> << >>, result |-> "running"])
    /\ last' = Outcome("confirm_order.begin", "ok", 0)
    /\ UNCHANGED <<ledger, ingredients, orders, status, snack_batches, events,
                   metadata>>
    /\ UNCHANGED <<cost_per_unit, fallback_cost_per_unit, cost_price_cached,
                   cost_cached, strict, allow_fallback, quote, recipes,
                   combo_quantity, is_active>>

\* "if self.status != self.STATUS_PLACED: raise", on the field of the instance;
\* then the atomic block opens with the combos and items still to deduct
CheckStatus(w) ==
    /\ At(w, "confirm_order", "check")
    /\ procs' = [procs EXCEPT ![w] =
                     IF @.m.status # "placed"
                     THEN [@ EXCEPT !.pc = "done", !.result = "failed"]
                     ELSE [@ EXCEPT !.pc = "deduct",
                                    !.jobs = OrderJobs(procs[w].m.order)]]
    /\ last' = Outcome("confirm_order.check",
                       IF procs[w].m.status # "placed" THEN "raised" ELSE "ok", 0)
    /\ UNCHANGED <<ledger, ingredients, orders, status, snack_batches, events,
                   metadata>>
    /\ UNCHANGED <<cost_per_unit, fallback_cost_per_unit, cost_price_cached,
                   cost_cached, strict, allow_fallback, quote, recipes,
                   combo_quantity, is_active>>

\* one call of _deduct_prepared_item_stock_for_quantity: the rows of one
\* prepared item are inserted inside the transaction; a conversion that
\* raises rolls the transaction back
DeductNext(w) ==
    LET j == Head(procs[w].jobs)
        one == _deduct_prepared_item_stock_for_quantity(
                   procs[w].m.order, j.prepared_item, j.quantity, j.combo)
    IN
    /\ At(w, "confirm_order", "deduct")
    /\ procs[w].jobs # << >>
    /\ procs' = [procs EXCEPT ![w] =
                     IF one.ok
                     THEN [@ EXCEPT !.jobs = Tail(@), !.written = @ \o one.entries]
                     ELSE [@ EXCEPT !.pc = "done", !.result = "failed",
                                    !.written = << >>]]
    /\ last' = Outcome("confirm_order.deduct",
                       IF one.ok THEN "ok" ELSE "raised",
                       Len(procs[w].written) + Len(one.entries))
    /\ UNCHANGED <<ledger, ingredients, orders, status, snack_batches, events,
                   metadata>>
    /\ UNCHANGED <<cost_per_unit, fallback_cost_per_unit, cost_price_cached,
                   cost_cached, strict, allow_fallback, quote, recipes,
                   combo_quantity, is_active>>

\* the rest of the atomic block: the snacks, the status of the instance saved
\* with update_fields=["status"], and the commit that publishes the rows
FinishConfirm(w) ==
    LET o == procs[w].m.order
        s == _deduct_snack_stock(snack_batches, o)
    IN
    /\ At(w, "confirm_order", "deduct")
    /\ procs[w].jobs = << >>
    /\ Len(ledger \o procs[w].written) <= MaxLedger
    /\ ledger' = IF s.ok THEN ledger \o procs[w].written ELSE ledger
    /\ snack_batches' = IF s.ok THEN s.batches ELSE snack_batches
    /\ status' = IF s.ok THEN [status EXCEPT ![o] = "confirmed"] ELSE status
    /\ procs' = [procs EXCEPT ![w] =
                     IF s.ok THEN [@ EXCEPT !.pc = "done", !.result = "committed"]
                     ELSE [@ EXCEPT !.pc = "done", !.result = "failed",
                                    !.written = << >>]]
    /\ last' = Outcome("confirm_order", IF s.ok THEN "committed" ELSE "failed",
                       Len(procs[w].written))
    /\ UNCHANGED <<ingredients, orders, events, metadata>>
    /\ UNCHANGED <<cost_per_unit, fallback_cost_per_unit, cost_price_cached,
                   cost_cached, strict, allow_fallback, quote, recipes,
                   combo_quantity, is_active>>

\* OrderViewSet.update_status: the transition table, the status saved and a
\* status_changed event; no stock is touched
valid_transitions(from) ==
    CASE from = "placed" -> {"confirmed", "cancelled"}
      [] from = "confirmed" -> {"preparing", "cancelled"}
      [] from = "preparing" -> {"out_for_delivery", "cancelled"}
      [] from = "out_for_delivery" -> {"delivered"}
      [] OTHER -> {}

UpdateStatus(o, new_status) ==
    LET ok == new_status \in valid_transitions(status[o]) IN
    /\ o \in orders
    /\ status' = IF ok THEN [status EXCEPT ![o] = new_status] ELSE status
    /\ events' = IF ok THEN [events EXCEPT ![o] = Append(@, "status_changed")]
                 ELSE events
    /\ last' = Outcome("update_status", IF ok THEN "ok" ELSE "rejected", 0)
    /\ UNCHANGED <<ledger, ingredients, orders, snack_batches>>
    /\ UNCHANGED CostVars

-----------------------------------------------------------------------------
(* Specification of concurrent confirmations                               *)

\* the statuses a client asks update_status for
RequestedStatuses == {"confirmed", "preparing"}

NextTx ==
    \/ \E w \in Workers, o \in AllOrders : BeginConfirm(w, o)
    \/ \E w \in Workers : CheckStatus(w)
    \/ \E w \in Workers : DeductNext(w)
    \/ \E w \in Workers : FinishConfirm(w)
    \/ \E o \in AllOrders : PrepareOrder(o)
    \/ \E o \in AllOrders : ProcessScheduledOrders(o)
    \/ \E o \in AllOrders, st \in RequestedStatuses : UpdateStatus(o, st)

SpecTx == Init /\ [][NextTx]_vars

-----------------------------------------------------------------------------
(* Ingredient.save() step by step: the row write and the cost cascade of   *)
(* on_ingredient_change inside one transaction.atomic() block, next to     *)
(* other saves in flight.  A transaction reads the committed rows and its  *)
(* own writes; a row written by a transaction in flight is locked until    *)
(* that transaction commits.                                               *)

Savers == {"s1", "s2"}

\* the ingredient rows as transaction w reads them
PriceView(w) == [cost_per_unit EXCEPT ![procs[w].ingredient] = procs[w].cost]

\* the cached costs as transaction w reads them
CacheView(w) ==
    [item |-> [p \in PreparedItems |->
                  IF p \in procs[w].wrote THEN procs[w].c.item[p]
                  ELSE cost_price_cached[p]],
     line |-> [cl \in ComboLines |->
                  IF combo_items(cl[1])[cl[2]].prepared_item \in procs[w].wrote
                  THEN procs[w].c.line[cl]
                  ELSE cost_cached[cl]]]

\* another save in flight has written ingredient row i
IngredientLocked(w, i) ==
    \E x \in DOMAIN procs \ {w} :
        procs[x].op = "ingredient.save" /\ procs[x].ingredient = i

\* another save in flight has written the row of prepared item p
ItemLocked(w, p) ==
    \E x \in DOMAIN procs \ {w} :
        procs[x].op = "ingredient.save" /\ p \in procs[x].wrote

\* ingredient.cost_per_unit = cost; ingredient.save(): full_clean, then the
\* UPDATE of the row inside the atomic block
BeginSave(w, i, cost) ==
    LET valid == stock_qty(i) >= 0 IN
    /\ ~Running(w)
    /\ i \in ingredients
    /\ ~IngredientLocked(w, i)
    /\ procs' = IF valid
                THEN procs @@ (w :> [op |-> "ingredient.save", pc |-> "read",
                                     ingredient |-> i, cost |-> cost,
                                     todo |-> Dependents(i),
                                     r |-> Price(0), wrote |-> {},
                                     c |-> [item |-> cost_price_cached,
                                            line |-> cost_cached]])
                ELSE procs
    /\ quote' = [op |-> "ingredient.save", ingredient |-> i, qty |-> 0,
                 unit |-> "", ok |-> valid, value |-> cost,
                 error |-> IF valid THEN "" ELSE "Stock cannot be negative."]
    /\ last' = Outcome("ingredient.save", IF valid THEN "begun" ELSE "failed", 0)
    /\ UNCHANGED <<metadata, ledger, ingredients, orders, status, snack_batches,
                   events, cost_per_unit, fallback_cost_per_unit,
                   cost_price_cached, cost_cached, strict, allow_fallback,
                   recipes, combo_quantity, is_active>>

\* on_ingredient_change, next dependent: recompute_and_cache_cost reads the
\* recipe and the ingredient rows and sums the line costs; an exception is
\* logged and the loop goes on
ReadRecipe(w) ==
    /\ At(w, "ingredient.save", "read")
    /\ procs[w].todo # << >>
    /\ LET r == recompute_cost(PriceView(w), Head(procs[w].todo)) IN
       procs' = [procs EXCEPT ![w] =
                    IF r.ok THEN [@ EXCEPT !.r = r, !.pc = "store"]
                    ELSE [@ EXCEPT !.todo = Tail(procs[w].todo)]]
    /\ last' = Outcome("recompute_and_cache_cost", "read", 0)
    /\ UNCHANGED <<metadata, ledger, ingredients, orders, status, snack_batches,
                   events, cost_per_unit, fallback_cost_per_unit,
                   cost_price_cached, cost_cached, strict, allow_fallback,
                   quote, recipes, combo_quantity, is_active>>

\* recompute_and_cache_cost, the writes: the UPDATE of the prepared item's
\* cost_price_cached and the save of each of its ComboItem rows
StoreCache(w) ==
    LET p == Head(procs[w].todo) IN
    /\ At(w, "ingredient.save", "store")
    /\ ~ItemLocked(w, p)
    /\ procs' = [procs EXCEPT ![w] =
                    [@ EXCEPT !.c = cache_cost(CacheView(w), p, procs[w].r),
                              !.wrote = procs[w].wrote \cup {p},
                              !.todo = Tail(procs[w].todo),
                              !.pc = "read"]]
    /\ last' = Outcome("recompute_and_cache_cost", "stored", 0)
    /\ UNCHANGED <<metadata, ledger, ingredients, orders, status, snack_batches,
                   events, cost_per_unit, fallback_cost_per_unit,
                   cost_price_cached, cost_cached, strict, allow_fallback,
                   quote, recipes, combo_quantity, is_active>>

\* the end of the atomic block of Ingredient.save(): the ingredient row and
\* the cached costs written by the cascade become visible together
CommitSave(w) ==
    /\ At(w, "ingredient.save", "read")
    /\ procs[w].todo = << >>
    /\ cost_per_unit' = PriceView(w)
    /\ cost_price_cached' = CacheView(w).item
    /\ cost_cached' = CacheView(w).line
    /\ procs' = [x \in DOMAIN procs \ {w} |-> procs[x]]
    /\ quote' = [op |-> "ingredient.save", ingredient |-> procs[w].ingredient,
                 qty |-> 0, unit |-> "", ok |-> TRUE, value |-> procs[w].cost,
                 error |-> ""]
    /\ last' = Outcome("ingredient.save", "saved", 0)
    /\ UNCHANGED <<metadata, ledger, ingredients, orders, status, snack_batches,
                   events, fallback_cost_per_unit, strict, allow_fallback,
                   recipes, combo_quantity, is_active>>

NextCascade ==
    \/ \E w \in Savers, i \in CostIngredients, c \in CostValues : BeginSave(w, i, c)
    \/ \E w \in Savers : ReadRecipe(w)
    \/ \E w \in Savers : StoreCache(w)
    \/ \E w \in Savers : CommitSave(w)

SpecCascade == InitMenu /\ [][NextCascade]_vars

-----------------------------------------------------------------------------
(* The batch arithmetic of the three call sites, side by side              *)

\* batch output quantities, serving sizes, recipe quantities (per batch, in
\* thousandths) and numbers of servings
BatchOutputs == {500, 600, 1000}
ServingSizes == {100, 200, 250}
RecipeQuantities == {1000, 20000, 50000}
Servings == {1, 2, 3, 5, 10}

\* for one batch-mode item and n servings: the servings per batch of
\* get_available_quantity and of _deduct_prepared_item_stock_for_quantity,
\* and the recipe quantity deducted by an order and by a kitchen batch
BatchMath(output, size, recipe_quantity, n) ==
    /\ quote' = [op |-> "batch_math", batch_output_quantity |-> output,
                 serving_size |-> size, quantity |-> recipe_quantity,
                 servings |-> n,
                 available |-> servings_per_batch_available(output, size),
                 consumed |-> servings_per_batch_consumed(output, size),
                 by_order |-> batch_consumption(output, size, recipe_quantity, n),
                 by_kitchen |-> Frac(total_quantity_needed(recipe_quantity, n), 1)]
    /\ last' = Outcome("batch_math", "ok", 0)
    /\ UNCHANGED <<metadata, procs, ledger, ingredients, orders, status,
                   snack_batches, events>>
    /\ UNCHANGED <<cost_per_unit, fallback_cost_per_unit, cost_price_cached,
                   cost_cached, strict, allow_fallback, recipes,
                   combo_quantity, is_active>>

NextBatch ==
    \E output \in BatchOutputs, size \in ServingSizes,
       recipe_quantity \in RecipeQuantities, n \in Servings :
        BatchMath(output, size, recipe_quantity, n)

SpecBatch == Init /\ [][NextBatch]_vars

-----------------------------------------------------------------------------
(* Claims about the ledger and the consumption transaction                 *)

ConsumptionRows == {k \in DOMAIN ledger : ledger[k].change_type = "consumption"}

\* C1: a confirmation that commits never leaves the ledger-derived stock of
\* any ingredient negative.
C1_NoNegativeCommit ==
    (last.op = "confirm_order" /\ last.result = "committed")
        => \A i \in ingredients : stock_qty(i) >= 0

\* C2: a confirmation (or preparation) that fails leaves the ledger, the
\* snack batches and every order's status exactly as they were: none of the
\* rows it had created part-way remains.
C2_FailureIsAtomic ==
    [][ (last'.op \in {"confirm_order", "prepare_order"} /\ last'.result = "failed")
            => (ledger' = ledger /\ status' = status
                /\ snack_batches' = snack_batches) ]_vars

\* a confirmation failed after it had already created ledger rows
C2_Witness ==
    /\ last.op = "confirm_order"
    /\ last.result = "failed"
    /\ last.wrote > 0

\* C3: when the stock of an ingredient covers either of two orders but not
\* both, and nothing but the two confirmations touches the ledger from the
\* first of them on, the consumption rows of at most one of them are in the
\* ledger (exactly one commits, the other is refused).
C3_ExactlyOneCommits ==
    \A o1, o2 \in AllOrders : \A i \in ingredients :
        LET mine == {k \in ConsumptionRows : ledger[k].related_order \in {o1, o2}}
            first == CHOOSE k \in mine : \A j \in mine : k <= j
            before == SubSeq(ledger, 1, first - 1)
            StockBefore == SumQty(SelectSeq(before, LAMBDA e : e.ingredient = i))
            Demand(o) == -SumQty(SelectSeq(ledger,
                              LAMBDA e : e.related_order = o /\ e.ingredient = i))
        IN ~ ( /\ o1 # o2
               /\ \E k \in mine : ledger[k].related_order = o1
               /\ \E k \in mine : ledger[k].related_order = o2
               /\ \A k \in first..Len(ledger) : k \in mine
               /\ Demand(o1) > 0 /\ Demand(o2) > 0
               /\ StockBefore >= Demand(o1) /\ StockBefore >= Demand(o2)
               /\ StockBefore < Demand(o1) + Demand(o2) )

\* the signed quantities of ingredient i's rows among the first k rows
RECURSIVE LedgerTotal(_, _)
LedgerTotal(i, k) ==
    IF k = 0 THEN 0
    ELSE LedgerTotal(i, k - 1)
         + (IF ledger[k].ingredient = i THEN ledger[k].quantity_change ELSE 0)

\* C4: in every reachable state the current stock of every ingredient equals
\* the sum of the signed quantities of all of its ledger entries.
C4_LedgerSumInvariant ==
    \A i \in AllIngredients : stock_qty(i) = LedgerTotal(i, Len(ledger))

\* an ingredient with an opening row, consumption rows of a confirmed order
\* and an adjustment row just written by the stock_qty setter
C4_Witness ==
    /\ last.op = "stock_qty.setter"
    /\ last.wrote = 1
    /\ \E i \in ingredients :
         /\ stock_qty(i) = 250 * Milli
         /\ \A kind \in {"opening", "consumption", "adjustment"} :
              \E k \in DOMAIN ledger :
                  ledger[k].ingredient = i /\ ledger[k].change_type = kind

\* C5: no step updates or deletes a ledger entry that is already written;
\* the ledger only grows at its end.
C5_AppendOnly ==
    [][ /\ Len(ledger') >= Len(ledger)
        /\ \A k \in DOMAIN ledger : ledger'[k] = ledger[k] ]_vars

-----------------------------------------------------------------------------
(* Claims about the costing engine and the cost cascade                    *)

\* the last operation was a cost_for_quantity call; nothing changed since
Quoted == last.op = "cost_for_quantity"

\* the quoted quantity converts to the ingredient's base unit
QuoteConverts ==
    to_base_unit(IngUnit(quote.ingredient), Frac(quote.qty, 1), quote.unit).ok

\* the quoted quantity in base units, as a Frac of whole units
QuoteBase ==
    InUnits(to_base_unit(IngUnit(quote.ingredient), Frac(quote.qty, 1),
                         quote.unit).value)

\* v is n/d rounded to an integer, a tie going up (n >= 0, d > 0)
IsHalfUp(v, n, d) == 2 * n - 2 * v * d < d /\ 2 * v * d - 2 * n <= d

\* v is n/d rounded to an integer, a tie going to the even neighbour
IsHalfEven(v, n, d) ==
    \/ Abs(2 * n - 2 * v * d) < d
    \/ (Abs(2 * n - 2 * v * d) = d /\ v % 2 = 0)

\* C6: with stock 0 and strict cost integrity on, cost_for_quantity fails for
\* every quantity and unit, whatever the fallback cost and the fallback
\* setting: it never returns a price, and whenever the quantity converts the
\* failure is the cost-blocked one.
C6_StrictAlwaysWins ==
    (Quoted /\ strict /\ stock_qty(quote.ingredient) = 0)
        => /\ ~quote.ok
           /\ QuoteConverts => quote.error = "Cost blocked"

\* strict blocked a call although a fallback cost is configured and allowed
C6_Witness ==
    /\ Quoted /\ strict /\ stock_qty(quote.ingredient) = 0
    /\ allow_fallback
    /\ fallback_cost_per_unit[quote.ingredient] > 0
    /\ QuoteConverts
    /\ quote.error = "Cost blocked"

\* C7 as the spec states it: with strict off and stock 0, the call returns
\* exactly base quantity x fallback cost when a fallback is configured and
\* allowed, and fails as cost-blocked when none is configured.
C7_FallbackExactProduct ==
    (Quoted /\ ~strict /\ stock_qty(quote.ingredient) = 0 /\ QuoteConverts)
        => LET fallback == fallback_cost_per_unit[quote.ingredient] IN
           /\ (fallback # Null /\ allow_fallback)
                  => (quote.ok /\ quote.value * QuoteBase.d = QuoteBase.n * fallback)
           /\ fallback = Null => ~quote.ok

\* C7 (as the code has it): with strict off and stock 0, the call returns
\* base quantity x fallback cost rounded to whole paise, a tie going to the
\* even paisa, when fallback pricing is allowed and a non-zero fallback cost
\* is configured; in every other case it fails as cost-blocked.  The regular
\* unit cost is never used.
C7_FallbackRounded ==
    (Quoted /\ ~strict /\ stock_qty(quote.ingredient) = 0 /\ QuoteConverts)
        => LET fallback == fallback_cost_per_unit[quote.ingredient] IN
           IF allow_fallback /\ fallback # Null /\ fallback # 0
           THEN /\ quote.ok
                /\ IsHalfEven(quote.value, QuoteBase.n * fallback, QuoteBase.d)
           ELSE ~quote.ok /\ quote.error = "no fallback cost"

\* a fallback price that is not the exact product: 0.1 kg at 0.25 is 0.02
C7_Witness ==
    /\ Quoted /\ ~strict /\ stock_qty(quote.ingredient) = 0
    /\ quote.ok
    /\ quote.value * QuoteBase.d # QuoteBase.n * fallback_cost_per_unit[quote.ingredient]

\* C8: with stock above 0 the call returns base quantity x unit cost rounded
\* to whole paise half-up (100 g of a kg-based ingredient costs a tenth of the
\* per-kg cost), and the ingredient cost of every recipe line whose
\* ingredient is in stock is that same value.
C8_StockedCostHalfUp ==
    /\ (Quoted /\ stock_qty(quote.ingredient) > 0 /\ QuoteConverts)
           => /\ quote.ok
              /\ IsHalfUp(quote.value,
                          QuoteBase.n * cost_per_unit[quote.ingredient], QuoteBase.d)
              /\ (IngUnit(quote.ingredient) = "kg" /\ quote.qty = 100 * Micro
                  /\ quote.unit = "gm")
                     => IsHalfUp(quote.value, cost_per_unit[quote.ingredient], 10)
    /\ \A p \in PreparedItems : \A k \in DOMAIN recipe_items(p) :
           LET r == recipe_items(p)[k]
               base == to_base_unit(IngUnit(r.ingredient), Frac(r.quantity, 1),
                                    r.quantity_unit)
               q == InUnits(base.value)
               c == ingredient_cost(cost_per_unit, r)
           IN (stock_qty(r.ingredient) > 0 /\ base.ok)
                  => /\ c.ok
                     /\ IsHalfUp(c.value, q.n * cost_per_unit[r.ingredient], q.d)

\* 100 g of rice in stock at 0.25 per kg costs 0.03: the tie went up
C8_Witness ==
    /\ Quoted
    /\ stock_qty(quote.ingredient) > 0
    /\ quote.qty = 100 * Micro /\ quote.unit = "gm"
    /\ cost_per_unit[quote.ingredient] = 25
    /\ quote.ok /\ quote.value = 3

\* the last operation saved ingredient quote.ingredient and ran its cascade
Cascaded == last.op = "ingredient.save" /\ last.result = "saved"

\* recomputing p raises because an ingredient of p is cost-blocked
CostBlocked(p) ==
    LET r == recompute_cost(cost_per_unit, p) IN
    ~r.ok /\ r.error \in {"Cost blocked", "no fallback cost"}

\* every recipe line of p is in a unit that converts
RecipeConverts(p) ==
    \A k \in DOMAIN recipe_items(p) :
        LET r == recipe_items(p)[k] IN
        to_base_unit(IngUnit(r.ingredient), Frac(r.quantity, 1), r.quantity_unit).ok

\* the ComboItem rows of prepared item p
LinesOf(p) == {cl \in ComboLines : combo_items(cl[1])[cl[2]].prepared_item = p}

\* C9: when the cascade's recomputation of a prepared item fails because an
\* ingredient is cost-blocked, the cost that item and every combo item and
\* combo containing it report is the blocked marker, not a number (a partial
\* sum, a zero or the value cached before).
C9_BlockedPropagates ==
    Cascaded =>
        \A k \in DOMAIN Dependents(quote.ingredient) :
            LET p == Dependents(quote.ingredient)[k] IN
            CostBlocked(p) =>
                /\ cost_price_cached[p] = Null
                /\ \A cl \in LinesOf(p) :
                       cost_cached[cl] = Null /\ total_cost(cl[1]) = Null

\* C10: after an ingredient's unit cost was changed and saved and the cascade
\* ran, the cached cost of every prepared item that uses the ingredient (in
\* convertible units) and of every combo item containing it is the value
\* computed from the new price.
C10_CascadeConsistency ==
    Cascaded =>
        \A k \in DOMAIN Dependents(quote.ingredient) :
            LET p == Dependents(quote.ingredient)[k]
                r == recompute_cost(cost_per_unit, p)
            IN RecipeConverts(p) =>
                /\ r.ok
                /\ cost_price_cached[p] = r.value
                /\ \A cl \in LinesOf(p) :
                       cost_cached[cl] = r.value * combo_items(cl[1])[cl[2]].quantity

-----------------------------------------------------------------------------
(* Claims about the cost and profit of a combo                             *)

\* the sum over the first k composition lines of c of the prepared item's
\* cached cost times the line's multiplier
RECURSIVE SumOfLines(_, _)
SumOfLines(c, k) ==
    IF k = 0 THEN 0
    ELSE SumOfLines(c, k - 1)
         + cost_price_cached[InitialComboItems(c)[k].prepared_item]
           * combo_quantity[<<c, k>>]

\* C11: after any sequence of recipe-line, ingredient-price and
\* composition-line edits, the total cost of every combo is the sum over its
\* composition lines of the prepared item's cached cost times the line's
\* multiplier, and its profit is the selling price minus that sum (negative
\* when the cost exceeds the price).
C11_TotalCostIsSumOfLines ==
    \A c \in Combos :
        /\ total_cost(c) = SumOfLines(c, Len(InitialComboItems(c)))
        /\ profit(c) = selling_price(c) - SumOfLines(c, Len(InitialComboItems(c)))
        /\ (SumOfLines(c, Len(InitialComboItems(c))) > selling_price(c))
               => profit(c) < 0

\* combo A sells at a loss after its idli line was set to 3 servings, the
\* idli recipe was edited and the price of rice was changed
C11_Witness ==
    /\ last.op = "combo_item.save" /\ last.result = "saved"
    /\ combo_quantity[<<"A", 1>>] = 3
    /\ recipes["idli"] # InitialRecipes("idli")
    /\ cost_per_unit[Rice] = 25
    /\ cost_price_cached["idli"] > 0
    /\ total_cost("A") > 0
    /\ profit("A") < 0

-----------------------------------------------------------------------------
(* Claims about the availability calculator                                *)

\* the smallest member of a non-empty set of integers
MinOf(S) == CHOOSE x \in S : \A y \in S : x <= y

\* the base quantity of recipe line r, a Frac of micro-units
LineBase(r) ==
    to_base_unit(IngUnit(r.ingredient), Frac(r.quantity, 1), r.quantity_unit).value

\* the reference formula of the availability of prepared item p, for a recipe
\* whose lines all convert: 0 without a recipe or with a line out of stock,
\* else the least floor(stock / base quantity), times floor(batch output /
\* serving size) in batch mode
ReferenceAvailability(p) ==
    LET lines == recipe_items(p)
        least == MinOf({ (stock_qty(lines[k].ingredient) * LineBase(lines[k]).d)
                             \div LineBase(lines[k]).n : k \in DOMAIN lines })
    IN IF lines = << >> THEN 0
       ELSE IF \E k \in DOMAIN lines : stock_qty(lines[k].ingredient) <= 0 THEN 0
       ELSE IF production_mode(p) = "per_serving" THEN least
       ELSE least * (batch_output_quantity(p) \div serving_size(p))

\* the formula is stated for p: its lines convert and, in batch mode, its
\* batch output is configured
HasReference(p) ==
    /\ RecipeConverts(p)
    /\ production_mode(p) = "batch" => batch_output_quantity(p) # Null

\* C12: for every stock state and recipe, get_available_quantity returns the
\* reference formula: the least floor(stock / to_base(line quantity)) over
\* the recipe lines, times floor(batch_output_quantity / serving_size) in
\* batch mode, and 0 when a line's ingredient is out of stock or there is no
\* recipe.
C12_AvailabilityIsReference ==
    (last.op = "get_available_quantity" /\ HasReference(quote.item))
        => (quote.ok /\ quote.value = ReferenceAvailability(quote.item))

\* the availability of combo c by the formula, from the availability its
\* prepared items report
ReferenceComboAvailability(c) ==
    LET items == combo_items(c)
        Of(k) == get_available_quantity(items[k].prepared_item).value
    IN IF items = << >> THEN 0
       ELSE IF \E k \in DOMAIN items : Of(k) = 0 THEN 0
       ELSE MinOf({Of(k) \div items[k].quantity : k \in DOMAIN items})

\* every prepared item of combo c reports an availability
ItemsReport(c) ==
    \A k \in DOMAIN combo_items(c) :
        get_available_quantity(combo_items(c)[k].prepared_item).ok

\* C13: the available quantity of a combo is the least, over its composition
\* lines, of floor(prepared item's available quantity / multiplier), and 0
\* when it has no composition lines or a prepared item has availability 0.
C13_ComboAvailability ==
    (last.op = "available_quantity" /\ ItemsReport(quote.combo))
        => /\ quote.ok
           /\ quote.value = ReferenceComboAvailability(quote.combo)
           /\ combo_items(quote.combo) = << >> => quote.value = 0
           /\ (\E k \in DOMAIN combo_items(quote.combo) :
                  get_available_quantity(
                      combo_items(quote.combo)[k].prepared_item).value = 0)
                 => quote.value = 0

\* the consumption rows a basket of n units of combo c would write
BasketRows(c, n) == DeductJobs(NoOrder, ComboJobs([combo |-> c, quantity |-> n]))

\* what a basket of n units of combo c takes of ingredient i
Demand(c, n, i) ==
    -SumQty(SelectSeq(BasketRows(c, n).entries, LAMBDA e : e.ingredient = i))

\* every ingredient's total demand of the basket is within its current stock
\* (an empty basket demands nothing)
BasketFits(c, n) ==
    \/ n = 0
    \/ /\ BasketRows(c, n).ok
       /\ \A i \in AllIngredients : Demand(c, n, i) <= stock_qty(i)

\* C14: the availability a combo reports is the maximum sellable quantity:
\* a basket of that many units can be consumed with every ingredient's total
\* demand within its current stock, and a basket of one more unit cannot.
C14_AvailabilityIsMaximum ==
    (last.op = "available_quantity" /\ quote.ok
     /\ combo_items(quote.combo) # << >>)
        => /\ BasketFits(quote.combo, quote.value)
           /\ ~BasketFits(quote.combo, quote.value + 1)

-----------------------------------------------------------------------------
(* Claims about the unit conversion                                        *)

\* the dimension of a unit string, by the spelling the caller gave
MassUnits == {"g", "gram", "grams", "gm", "kg", "KG", " gm "}
VolumeUnits == {"ml", "millilitre", "milliliter", "ltr", "l", "litre"}
PieceUnits == {"pcs", "pc", "piece", "pieces", "Pcs"}
Dimension(unit) ==
    CASE unit \in MassUnits -> "mass"
      [] unit \in VolumeUnits -> "volume"
      [] unit \in PieceUnits -> "pieces"
      [] OTHER -> "unrecognised"

BaseDimension(i) ==
    CASE IngUnit(i) = "kg" -> "mass"
      [] IngUnit(i) = "ltr" -> "volume"
      [] OTHER -> "pieces"

\* how many of the unit make one base unit
PerBase(unit) ==
    IF unit \in {"g", "gram", "grams", "gm", " gm ", "ml", "millilitre", "milliliter"}
    THEN 1000 ELSE 1

\* C15: to_base_unit fails with the validation error, never a number, for
\* every unit whose dimension differs from the ingredient's (mass into a
\* volume- or piece-based ingredient, volume into a mass- or piece-based one,
\* anything but pieces into a piece-based one) and for every unrecognised
\* unit string; otherwise it converts, dividing grams and millilitres by 1000
\* and leaving kilograms, litres and pieces as they are.
C15_UnitMismatchFails ==
    last.op = "to_base_unit" =>
        IF Dimension(quote.unit) = BaseDimension(quote.ingredient)
        THEN /\ quote.ok
             /\ quote.value.n * PerBase(quote.unit) = quote.qty * quote.value.d
        ELSE ~quote.ok /\ quote.error = "Invalid unit conversion"

\* grams asked of a piece-counted ingredient: the call raised
C15_Witness ==
    /\ last.op = "to_base_unit"
    /\ quote.unit = "gm"
    /\ IngUnit(quote.ingredient) = "pcs"
    /\ ~quote.ok

\* C17: for every ingredient, quantity and convertible unit, converting the
\* converted quantity again from the ingredient's base unit returns it
\* unchanged, and converting a quantity given in the base unit is a no-op.
C17_RoundTrip ==
    (last.op = "to_base_unit" /\ quote.ok)
        => /\ quote.again.ok
           /\ quote.again.value = quote.value
           /\ quote.unit = IngUnit(quote.ingredient)
                 => quote.value = Frac(quote.qty, 1)

\* 2.5 g of a kg-based ingredient: 0.0025 kg, and again 0.0025 kg
C17_Witness ==
    /\ last.op = "to_base_unit"
    /\ quote.qty = 2500 * Milli /\ quote.unit = "g"
    /\ IngUnit(quote.ingredient) = "kg"
    /\ quote.ok
    /\ quote.value = Frac(2500, 1)
    /\ quote.again.value = Frac(2500, 1)

-----------------------------------------------------------------------------
(* Claims about recipe lines                                               *)

\* the unit of recipe line r converts to the base unit of its ingredient
LineConverts(r) ==
    to_base_unit(IngUnit(r.ingredient), Frac(r.quantity, 1), r.quantity_unit).ok

\* C16: a recipe line whose quantity unit does not convert to the base unit of
\* its ingredient is rejected with a ValidationError when the line is
\* validated, so no such line is accepted into a recipe.
C16_MismatchedLineRejected ==
    last.op = "recipe_line.save" =>
        /\ ~LineConverts(quote.line) => (~quote.ok /\ last.result = "failed")
        /\ last.result = "saved" =>
               \A k \in DOMAIN recipes[quote.item] :
                   recipes[quote.item][k] = quote.line
                       => LineConverts(recipes[quote.item][k])

-----------------------------------------------------------------------------
(* Claims about the kitchen operations                                     *)

\* what the basket of order o references
ReferencedCombos(o) ==
    {order_combos(o)[k].combo : k \in DOMAIN order_combos(o)}
ReferencedItems(o) ==
    {OrderJobs(o)[k].prepared_item : k \in DOMAIN OrderJobs(o)}
ReferencedIngredients(o) ==
    UNION {{recipe_items(p)[k].ingredient : k \in DOMAIN recipe_items(p)} :
              p \in ReferencedItems(o)}

SomeInactive(o) ==
    \E x \in ReferencedCombos(o) \cup ReferencedItems(o)
                \cup ReferencedIngredients(o) : ~is_active[x]
SomeWithoutRecipe(o) ==
    \E p \in ReferencedItems(o) : recipe_items(p) = << >>
SomeWithoutBatchOutput(o) ==
    \E p \in ReferencedItems(o) :
        production_mode(p) = "batch" /\ batch_output_quantity(p) = Null

\* C18: confirming a placed order fails and writes nothing when something the
\* basket references (combo, prepared item, ingredient) is inactive, when a
\* referenced prepared item has no recipe, or when a referenced batch-mode
\* item has no batch output quantity.
C18_FlawedBasketFails ==
    [][\A o \in KitchenOrders :
          (ConfirmOrder(o) /\ status[o] = "placed"
             /\ (SomeInactive(o) \/ SomeWithoutRecipe(o)
                    \/ SomeWithoutBatchOutput(o)))
          => (last'.result = "failed" /\ ledger' = ledger
                /\ snack_batches' = snack_batches /\ status' = status)]_vars

\* C19: prepare_order on a confirmed order appends the consumption rows of
\* all its combos, prepared items and snacks, sets the status to preparing
\* and records one preparing event; on an order in any other status it fails
\* and changes nothing.
C19_PrepareDeductsAndAdvances ==
    [][\A o \in KitchenOrders :
          PrepareOrder(o) =>
              IF status[o] = "confirmed"
              THEN Deductions(o).ok =>
                       /\ ledger' = ledger \o Deductions(o).entries
                       /\ snack_batches' = Deductions(o).batches
                       /\ status' = [status EXCEPT ![o] = "preparing"]
                       /\ events' = [events EXCEPT ![o] = Append(@, "preparing")]
              ELSE /\ last'.result = "failed"
                   /\ UNCHANGED <<ledger, snack_batches, status, events>>]_vars

\* the number of events of order o with the given action
EventCount(o, action) ==
    Cardinality({k \in DOMAIN events[o] : events[o][k] = action})

\* C20: cancel_order appends no ledger row and leaves the stock of every
\* ingredient and the remaining units of every snack batch as they were; it
\* sets the status to cancelled and records exactly one cancelled event, and
\* on an order that is already cancelled it changes nothing.
C20_CancelRestoresNothing ==
    [][\A o \in KitchenOrders :
          CancelOrder(o) =>
              /\ ledger' = ledger
              /\ \A i \in AllIngredients : stock_qty(i)' = stock_qty(i)
              /\ snack_batches' = snack_batches
              /\ UNCHANGED <<ingredients, orders>>
              /\ UNCHANGED CostVars
              /\ IF status[o] = "cancelled"
                 THEN UNCHANGED <<status, events>>
                 ELSE /\ status' = [status EXCEPT ![o] = "cancelled"]
                      /\ events' = [events EXCEPT ![o] = Append(@, "cancelled")]]_vars

\* order 1 was confirmed (two consumption rows for rice), cancelled, and
\* cancelled again: the rows are still there, the rice is still deducted and
\* the order has one cancelled event
C20_Witness ==
    /\ last.op = "cancel_order" /\ last.result = "skipped"
    /\ status[1] = "cancelled"
    /\ EventCount(1, "cancelled") = 1
    /\ \E k \in DOMAIN ledger :
           ledger[k].related_order = 1 /\ ledger[k].change_type = "consumption"
    /\ stock_qty(Rice) < 1000 * Milli

-----------------------------------------------------------------------------
(* Claims about the checkout endpoint                                      *)

\* the requests carrying key that were answered with an order
Answered(key) ==
    {w \in DOMAIN procs : /\ procs[w].op = "create_order"
                          /\ procs[w].key = key
                          /\ procs[w].pc = "done"
                          /\ procs[w].code \in {200, 201}}

\* C21: all create_order requests that carry the same X-Idempotency-Key,
\* one after the other or overlapping, are answered with one and the same
\* order: one request creates it and every other returns it.
C21_IdempotentCreate ==
    \A key \in Keys :
        /\ Cardinality({procs[w].order : w \in Answered(key)}) <= 1
        /\ Cardinality({w \in Answered(key) : procs[w].code = 201}) <= 1

-----------------------------------------------------------------------------
(* Claims about concurrent consumption transactions                        *)

\* the confirmations whose atomic block is open
InFlight == {w \in DOMAIN procs : procs[w].op = "confirm_order"
                                   /\ procs[w].pc = "deduct"}

\* the ingredients transaction w has appended entries for so far
Touched(w) == {procs[w].written[k].ingredient : k \in DOMAIN procs[w].written}

\* C22: a consumption transaction holds exclusive locks on all the ingredient
\* rows it touches, taken in ascending identifier order in one pass before it
\* validates or appends anything; so of two transactions that need the same
\* ingredient only one at a time is past the locking step and has appended
\* entries for it, and neither waits for the other in a cycle.
C22_ExclusiveIngredients ==
    \A w1, w2 \in InFlight :
        w1 # w2 => Touched(w1) \cap Touched(w2) = {}

\* the committed consumption rows linked to order o, and those of ingredient i
RowsOf(o) == {k \in ConsumptionRows : ledger[k].related_order = o}
RowsOfIngredient(o, i) == {k \in RowsOf(o) : ledger[k].ingredient = i}

\* the base-unit demand of order o for ingredient i over its whole basket
TotalDemand(o, i) ==
    -SumQty(SelectSeq(DeductJobs(o, OrderJobs(o)).entries,
                      LAMBDA e : e.ingredient = i))

\* C23: a committed consumption transaction leaves exactly one consumption
\* entry per ingredient involved, whose quantity is the total base-unit demand
\* of the basket for that ingredient (all recipe lines, prepared items and
\* combos coalesced), not one entry per recipe line.
C23_OneEntryPerIngredient ==
    (last.op = "confirm_order" /\ last.result = "committed") =>
        \A o \in AllOrders, i \in AllIngredients :
            /\ Cardinality(RowsOfIngredient(o, i)) <= 1
            /\ \A k \in RowsOfIngredient(o, i) :
                   ledger[k].quantity_change = -TotalDemand(o, i)

\* C25: the whole basket is expanded and validated before anything is
\* written: no transaction has appended a ledger entry while a combo or a
\* prepared item of its basket is still waiting to be expanded.
C25_ExpandBeforeWrite ==
    \A w \in InFlight : procs[w].written # << >> => procs[w].jobs = << >>

\* C30: whatever the order and interleaving of confirmations, preparations,
\* scheduled processing and status updates on an order, the ledger holds at
\* most one set of consumption entries linked to it.
C30_DeductedAtMostOnce ==
    \A o \in AllOrders :
        Cardinality(RowsOf(o)) <= Len(DeductJobs(o, OrderJobs(o)).entries)

-----------------------------------------------------------------------------
(* Claims about kitchen batches and the batch arithmetic                   *)

\* C26: create_kitchen_batch never takes the ledger-derived stock of an
\* ingredient below zero, and a call that fails (stock too low, no recipe,
\* batch size not positive) appends no ledger entry.
C26_KitchenBatchValidates ==
    [][ last'.op = "create_kitchen_batch" =>
            /\ \A i \in AllIngredients :
                   stock_qty(i) >= 0 => stock_qty(i)' >= 0
            /\ last'.result = "failed" => ledger' = ledger ]_vars

\* C27: for a batch-mode item the servings per batch used for availability
\* equal the servings per batch used for consumption, and n servings deduct
\* the same ingredient quantity whether an order or a kitchen batch of n
\* servings deducts them.
C27_BatchMathAgrees ==
    quote.op = "batch_math" =>
        /\ Frac(quote.available, 1) = quote.consumed
        /\ quote.by_order = quote.by_kitchen

-----------------------------------------------------------------------------
(* Claims about the availability breakdown                                 *)

\* the values the breakdown b reports, and the lines holding its minimum
BreakdownValues(b) == {b.breakdown[k].available : k \in DOMAIN b.breakdown}
AtMinimum(b) ==
    {k \in DOMAIN b.breakdown :
        \A j \in DOMAIN b.breakdown :
            b.breakdown[k].available <= b.breakdown[j].available}

\* what get_available_quantity returns for p when `least` is the least
\* number of servings (or batches) any recipe line allows
DeterminedBy(p, least) ==
    IF production_mode(p) = "batch"
    THEN least * servings_per_batch_available(batch_output_quantity(p),
                                              serving_size(p))
    ELSE least

\* C28: the bottleneck of the breakdown is an ingredient whose value is the
\* minimum over the recipe lines, the minimum that determines the available
\* quantity; among tied ingredients it is the first in iteration order, and
\* a second call in the same state reports the same bottleneck.
C28_BottleneckIsMinimum ==
    (quote.op = "get_availability_breakdown" /\ quote.first.ok
       /\ quote.first.breakdown # << >>) =>
        LET b == quote.first
            first == CHOOSE k \in AtMinimum(b) : \A j \in AtMinimum(b) : k <= j
        IN /\ b.bottleneck = b.breakdown[first].name
           /\ b.breakdown[first].name = quote.lines[first].ingredient
           /\ quote.ok
           /\ quote.value = DeterminedBy(quote.item, b.breakdown[first].available)
           /\ quote.again.bottleneck = b.bottleneck

-----------------------------------------------------------------------------
(* Claims about the inventory summary                                      *)

\* C29: the total quantity, the total inventory value and the low and
\* out-of-stock counts per unit that the inventory summary reports are those
\* obtained from the ledger sum of every ingredient (stock x unit cost); the
\* stored running-total column is not what they are computed from.
C29_SummaryIsLedgerDerived ==
    last.op = "summary" =>
        quote.data = SummaryOf([i \in ingredients |-> stock_qty(i)])

-----------------------------------------------------------------------------
(* Claims about the price update and its cascade as one unit               *)

\* the cached cost of prepared item p is the value computed from the
\* committed prices, or the blocked marker
Recomputed(p) ==
    LET r == recompute_cost(cost_per_unit, p) IN
    cost_price_cached[p] = Null \/ (r.ok /\ cost_price_cached[p] = r.value)

\* C24: a price update and its cascade are one unit for every reader of the
\* committed rows: in the state in which a saved unit cost of an ingredient
\* becomes visible, every prepared item whose recipe uses the ingredient
\* carries a cached cost computed from the prices now visible (or is marked
\* blocked), never one computed from an old price; this also when the
\* recomputation of a dependent item fails.
C24_PriceAndCascadeAtomic ==
    (last.op = "ingredient.save" /\ last.result = "saved") =>
        \A k \in DOMAIN Dependents(quote.ingredient) :
            Recomputed(Dependents(quote.ingredient)[k])

=============================================================================
